---- MODULE Spec2Model ----
(***************************************************************************)
(* Model of BilingualMerger (script.js, the revision at lines 1218-1728):  *)
(* merge (speech mode) and mergePresentation (single and mixed mode).      *)
(*                                                                         *)
(* A text is the sequence of its whitespace-separated tokens; a paragraph  *)
(* list is a sequence of texts. Durations are kept in pause units: the     *)
(* code's seconds are units * 60 / wpm, so comparing units compares        *)
(* seconds.                                                                *)
(***************************************************************************)
EXTENDS Integers, Sequences, FiniteSets, TLC

(* ------------------------------ bounds --------------------------------- *)
MaxParas == 3
MaxSlides == 3
MaxMixedSlides == 2

(* ------------------------------ helpers -------------------------------- *)
Max(a, b) == IF a >= b THEN a ELSE b
Min(a, b) == IF a <= b THEN a ELSE b
Abs(a) == IF a >= 0 THEN a ELSE 0 - a
SeqsUpTo(S, n) == UNION {[1..k -> S] : k \in 0..n}

(* Only({e(x) : x \in {v}}) is e(v) with v evaluated once.                 *)
Only(S) == CHOOSE x \in S : TRUE

RECURSIVE SumOver(_, _)
SumOver(s, k) == IF k = 0 THEN 0 ELSE s[k] + SumOver(s, k - 1)
Sum(s) == Only({ SumOver(v, Len(v)) : v \in {s} })

Langs == {"en", "fr"}
other(lang) == IF lang = "en" THEN "fr" ELSE "en"

(* ------------------------------ tokens --------------------------------- *)
(* The last character of a token, for the tokens the inputs are built of.  *)
LastChar(word) ==
    CASE word = "b," -> ","
      [] word = "c." -> "."
      [] word = "***" -> "*"
      [] word = "#" -> "#"
      [] OTHER -> "a"

wpm == 150

(* countWords: the tokens matched by /«[^»]+»|\S+/g; no token of the       *)
(* inputs holds a « quote, so every token is one match.                    *)
countWords(text) == Len(text)

(* The pause units estimateDuration adds for one token: a run of three or  *)
(* more '*' or '-' is replaced by a space before tokenizing (line breaks   *)
(* and separators are whitespace after that and give no word), a token     *)
(* ending in .!? ends its sentence (the split is on [.!?]\s+, and the last *)
(* sentence is checked for its last character).                            *)
WordUnits(word) ==
    IF word \in {"***", "---", "\n", "\n\n", "\n\n***\n\n", "\n\n---\n\n"} THEN 0
    ELSE 1
         + (IF LastChar(word) \in {",", ";", ":"} THEN 1 ELSE 0)
         + (IF word = "#" THEN 2 ELSE 0)
         + (IF LastChar(word) \in {".", "!", "?"} THEN 2 ELSE 0)

estimateDuration(text) == Sum([k \in 1..Len(text) |-> WordUnits(text[k])])

(* ------------------------------ inputs --------------------------------- *)
EmptyText == <<>>
EmptyPara == [text |-> EmptyText, words |-> 0]

(* Paragraphs as parseParagraphs returns them: trimmed and non-empty.      *)
ParaPool == { <<"a">>, <<"b,", "c.">>, <<"a", "a", "a">> }
BlockTimes == {0, 1}

toPara(text) == [text |-> text, words |-> countWords(text)]
toParas(texts) == [k \in 1..Len(texts) |-> toPara(texts[k])]

(* arr[i] || { text: '', words: 0 } with the code's 0-based index i        *)
ParaAt(paras, i) == IF i + 1 <= Len(paras) THEN paras[i + 1] ELSE EmptyPara

(* outputParas.join('\n\n***\n\n'): the separator is one token of the      *)
(* returned text, which no paragraph holds (a paragraph has no blank line) *)
SEP == "\n\n***\n\n"
RECURSIVE JoinFrom(_, _, _)
JoinFrom(paras, k, sep) ==
    IF k > Len(paras) THEN <<>>
    ELSE IF k = Len(paras) THEN paras[k]
    ELSE paras[k] \o <<sep>> \o JoinFrom(paras, k + 1, sep)
Join(paras, sep) == Only({ JoinFrom(v, 1, sep) : v \in {paras} })

RECURSIVE SplitFrom(_, _, _, _)
SplitFrom(text, k, cur, sep) ==
    IF k > Len(text) THEN <<cur>>
    ELSE IF text[k] = sep THEN <<cur>> \o SplitFrom(text, k + 1, <<>>, sep)
    ELSE SplitFrom(text, k + 1, Append(cur, text[k]), sep)
Segments(text, sep) ==
    Only({ IF v = <<>> THEN <<>> ELSE SplitFrom(v, 1, <<>>, sep) : v \in {text} })

(* ------------------------------ raw text ------------------------------- *)
(* A raw text (a JavaScript string) is the sequence of its characters.     *)
(* \s and trim() agree on the characters used here.                        *)
IsSpace(c) == c \in {" ", "\n", "\r"}

RECURSIVE TrimLeft(_)
TrimLeft(chars) ==
    IF chars # <<>> /\ IsSpace(Head(chars)) THEN TrimLeft(Tail(chars)) ELSE chars
RECURSIVE TrimRight(_)
TrimRight(chars) ==
    IF chars # <<>> /\ IsSpace(chars[Len(chars)])
    THEN TrimRight(SubSeq(chars, 1, Len(chars) - 1)) ELSE chars
(* String.prototype.trim                                                   *)
Trim(chars) == TrimRight(TrimLeft(chars))

(* text.replace(/\r\n?/g, '\n')                                            *)
RECURSIVE NormalizeFrom(_, _)
NormalizeFrom(chars, p) ==
    IF p > Len(chars) THEN <<>>
    ELSE IF chars[p] = "\r"
         THEN <<"\n">> \o NormalizeFrom(chars, IF p < Len(chars) /\ chars[p + 1] = "\n"
                                               THEN p + 2 ELSE p + 1)
         ELSE <<chars[p]>> \o NormalizeFrom(chars, p + 1)
Normalize(chars) == NormalizeFrom(chars, 1)

(* the last index of the run of whitespace that starts at p (p - 1 when    *)
(* there is none)                                                          *)
RECURSIVE SpaceRunEnd(_, _)
SpaceRunEnd(chars, p) ==
    IF p <= Len(chars) /\ IsSpace(chars[p]) THEN SpaceRunEnd(chars, p + 1) ELSE p - 1

(* The end of the match of /\n\s*\n+/ that starts at p, 0 when there is    *)
(* none: \s* is greedy and gives back until a line break follows, so the   *)
(* match ends at the last line break of the whitespace run after p.        *)
BlankMatchEnd(chars, p) ==
    IF chars[p] # "\n" THEN 0
    ELSE LET breaks == {j \in (p + 1)..SpaceRunEnd(chars, p + 1) : chars[j] = "\n"}
         IN  IF breaks = {} THEN 0 ELSE CHOOSE j \in breaks : \A k \in breaks : k <= j

(* normalized.split(/\n\s*\n+/): the matches are taken left to right       *)
RECURSIVE SplitBlank(_, _, _)
SplitBlank(chars, p, cur) ==
    IF p > Len(chars) THEN <<cur>>
    ELSE IF BlankMatchEnd(chars, p) > 0
         THEN <<cur>> \o SplitBlank(chars, BlankMatchEnd(chars, p) + 1, <<>>)
         ELSE SplitBlank(chars, p + 1, Append(cur, chars[p]))

(* variant: the blocks are not trimmed                                     *)
parseParagraphs_NoTrim(text) ==
    SelectSeq(SplitBlank(Normalize(text), 1, <<>>), LAMBDA para : Len(para) > 0)

parseParagraphs(text) ==
    Only({ SelectSeq([k \in 1..Len(blocks) |-> Trim(blocks[k])], LAMBDA para : Len(para) > 0)
           : blocks \in {SplitBlank(Normalize(text), 1, <<>>)} })

(* text.split(/\r?\n/)                                                     *)
RECURSIVE SplitLines(_, _, _)
SplitLines(chars, p, cur) ==
    IF p > Len(chars) THEN <<cur>>
    ELSE IF chars[p] = "\r" /\ p < Len(chars) /\ chars[p + 1] = "\n"
         THEN <<cur>> \o SplitLines(chars, p + 2, <<>>)
    ELSE IF chars[p] = "\n" THEN <<cur>> \o SplitLines(chars, p + 1, <<>>)
    ELSE SplitLines(chars, p + 1, Append(cur, chars[p]))

(* bodyLines.join('\n')                                                    *)
RECURSIVE JoinLines(_, _)
JoinLines(lines, k) ==
    IF k > Len(lines) THEN <<>>
    ELSE IF k = Len(lines) THEN lines[k]
    ELSE lines[k] \o <<"\n">> \o JoinLines(lines, k + 1)

(* variant: a heading is a line that starts with '#'                       *)
IsHeading_NoIndent(line) == line # <<>> /\ Head(line) = "#"

(* /^\s*#/.test(line)                                                      *)
IsHeading(line) == TrimLeft(line) # <<>> /\ Head(TrimLeft(line)) = "#"

(* The tokens /\S+/g matches in a raw text, each as a string. None of the  *)
(* characters used is a « quote.                                           *)
RECURSIVE TokensFrom(_, _, _)
TokensFrom(chars, p, cur) ==
    IF p > Len(chars) THEN (IF cur = "" THEN <<>> ELSE <<cur>>)
    ELSE IF IsSpace(chars[p])
         THEN (IF cur = "" THEN <<>> ELSE <<cur>>) \o TokensFrom(chars, p + 1, "")
         ELSE TokensFrom(chars, p + 1, cur \o chars[p])
Tokens(chars) == TokensFrom(chars, 1, "")

(* The loop of parseSlides over the lines: slides holds the slides pushed  *)
(* so far, current the open slide (none before the first heading).         *)
NoCurrent == [open |-> FALSE, title |-> <<>>, bodyLines |-> <<>>]
(* variant: the lines before the first heading are pushed as a slide       *)
CloseSlide_Always(slides, current) ==
    Append(slides, [title |-> current.title,
                    body |-> Trim(JoinLines(current.bodyLines, 1))])

CloseSlide(slides, current) ==
    IF current.open
    THEN Append(slides, [title |-> current.title,
                         body |-> Trim(JoinLines(current.bodyLines, 1))])
    ELSE slides

RECURSIVE SlidesFrom(_, _, _, _)
SlidesFrom(lines, k, slides, current) ==
    IF k > Len(lines) THEN CloseSlide(slides, current)
    ELSE IF IsHeading(lines[k])
         THEN SlidesFrom(lines, k + 1, CloseSlide(slides, current),
                         [open |-> TRUE, title |-> Trim(lines[k]), bodyLines |-> <<>>])
    ELSE IF current.open
         THEN SlidesFrom(lines, k + 1, slides,
                         [current EXCEPT !.bodyLines = Append(@, lines[k])])
    ELSE SlidesFrom(lines, k + 1, slides, current)

(* parseSlides on a raw text: title and body are raw texts, paragraphs raw *)
(* paragraphs, words the sum of their word counts.                         *)
parseSlides(text) ==
    Only({ [k \in 1..Len(closed) |->
              Only({ [title |-> closed[k].title,
                      body |-> Trim(closed[k].body),
                      paragraphs |-> paragraphs,
                      words |-> Sum([j \in 1..Len(paragraphs) |->
                                        countWords(Tokens(paragraphs[j]))])]
                     : paragraphs \in {parseParagraphs(closed[k].body)} })]
           : closed \in {SlidesFrom(SplitLines(text, 1, <<>>), 1, <<>>, NoCurrent)} })


(* ------------------------------ state ---------------------------------- *)
VARIABLES
    call,           \* the method running: "merge" or "mergePresentation"
    pc,             \* position in the running call
    slideMode,      \* options.slideMode
    mixedPattern,   \* options.mixedPattern
    enSlides,       \* mergePresentation: parsed English slides
    frSlides,       \* mergePresentation: parsed French slides
    slidesOut,      \* single mode: texts of the slides emitted so far
    cuts,           \* mixed mode: cut per slide index (0 where the code has undefined)
    plan,           \* mixed mode: the current plan
    bestDelta,      \* mixed mode: |enDur - frDur| of the current plan
    iter,           \* mixed mode: iterations of the local search done
    startLang,      \* options.startLang
    blockTime,      \* options.blockTime
    enParagraphs,   \* merge: parsed English paragraphs
    frParagraphs,   \* merge: parsed French paragraphs
    i,              \* loop index of the walk
    enWordsUsed, frWordsUsed, enDur, frDur,
    streakLang, streakDuration, streakCount,
    outputParas, choices,
    targetStreakCount, \* merge: const targetStreakCount
    walk,           \* history: per walked index, [lang, forced]
    result,         \* the returned object
    enText, frText, \* the raw texts a call or the page is given
    parsed,         \* what a call of a parsing or estimating function returned
    mode,           \* the page: the checked mode radio
    outputPreview,  \* the page: outputPreview.textContent
    validation,     \* the page: the validation message, <<>> for ''
    click,          \* the page: position of the generate click handler
    practiceMode    \* the page: the PracticeController, a record of its fields

vars == << call, pc, slideMode, mixedPattern, enSlides, frSlides, slidesOut,
           cuts, plan, bestDelta, iter, startLang, blockTime, enParagraphs, frParagraphs, i,
           enWordsUsed, frWordsUsed, enDur, frDur,
           streakLang, streakDuration, streakCount,
           outputParas, choices, targetStreakCount, walk, result,
           enText, frText, parsed, mode, outputPreview, validation, click,
           practiceMode >>

(* the arguments of the call, which no step changes                        *)
inputs == << call, slideMode, mixedPattern, enSlides, frSlides,
             startLang, blockTime, enParagraphs, frParagraphs, enText, frText >>
(* what the steps of merge and mergePresentation never touch               *)
outside == << parsed, mode, outputPreview, validation, click, practiceMode >>
(* the locals of merge, of single mode and of mixed mode                   *)
mergeLocals == << streakLang, streakDuration, streakCount, outputParas, choices,
                  targetStreakCount >>
mixedLocals == << cuts, plan, bestDelta, iter >>

NoPlan == [slidesOut |-> <<>>, enWords |-> 0, frWords |-> 0, enDur |-> 0, frDur |-> 0]

NoResult == [text |-> <<>>, enWords |-> 0, frWords |-> 0, enDur |-> 0, frDur |-> 0]

(* The PracticeController as its constructor leaves it. timeouts holds the *)
(* pending timeouts of tick, each with the flag that this.timer is its id; *)
(* countdowns holds the count of every countdown that has not resolved.    *)
(* currentSentenceWordIdx is undefined until reset or tick makes it 0.     *)
(* countdownOverlay tells whether the document has the two elements that   *)
(* runCountdown looks up, countdown-overlay and countdown-number.          *)
NoPractice ==
    [content |-> <<>>, isPlaying |-> FALSE, isPaused |-> FALSE,
     currentIndex |-> 0, currentSentenceWordIdx |-> 0, currentWordGlobalIdx |-> 0,
     timeouts |-> <<>>, countdowns |-> <<>>, countdownOverlay |-> FALSE]

(* ------------------------------ merge ---------------------------------- *)
(* totalPairs from the English paragraphs alone                            *)
totalPairs_EnglishOnly == Len(enParagraphs)

totalPairs == Max(Len(enParagraphs), Len(frParagraphs))

parseBlockTime(bt) == IF bt = 0 THEN 45 ELSE bt

(* Math.round(num / den) for den > 0: floor(num/den + 1/2)                 *)
Round(num, den) == (2 * num + den) \div (2 * den)

(* clamp without its lower end                                             *)
clamp_NoLower(val, lo, hi) == Min(val, hi)

(* clamp without its upper end                                             *)
clamp_NoUpper(val, lo, hi) == Max(val, lo)

clamp(val, lo, hi) == Min(Max(val, lo), hi)

maxAllowedStreak(pairs) == Max(1, IF pairs \div 2 = 0 THEN 1 ELSE pairs \div 2)

(* targetStreakCount of merge. avgParaSec = (units * 60 / wpm) / paras, so *)
(* baseBlockTime / avgParaSec = baseBlockTime * paras * wpm / (units * 60);*)
(* with no paragraph avgParaSec is 5, with zero units the quotient is      *)
(* +-Infinity and the clamp decides.                                       *)
TargetStreak(en, fr, bt) ==
    LET base == parseBlockTime(bt)
        paras == Len(en) + Len(fr)
        units == Sum([k \in 1..Len(en) |-> estimateDuration(en[k].text)])
                 + Sum([k \in 1..Len(fr) |-> estimateDuration(fr[k].text)])
        hi == Max(2, maxAllowedStreak(Max(Len(en), Len(fr))))
    IN  IF paras = 0 THEN clamp(Round(base, 5), 1, hi)
        ELSE IF units = 0 THEN (IF base > 0 THEN hi ELSE 1)
        ELSE clamp(Round(base * paras * wpm, units * 60), 1, hi)

MustSwitchPenalty == 1000000

Finite(n) == [inf |-> FALSE, val |-> n]
Infinite == [inf |-> TRUE, val |-> 0]
ScoreLess(a, b) == ~a.inf /\ (b.inf \/ a.val < b.val)

(* a walk that never has to switch                                         *)
mustSwitch_Never == FALSE

mustSwitch == streakLang # "none" /\ streakCount >= targetStreakCount

(* Score that takes a missing paragraph for a candidate                    *)
Score_NoInfinity(lang, para, mine, theirs) ==
    Finite(Abs((mine + para.words) - theirs)
           + (IF streakLang = other(lang) /\ ~mustSwitch
              THEN (targetStreakCount - streakCount) * 2 ELSE 0)
           + (IF streakLang = lang /\ mustSwitch THEN MustSwitchPenalty ELSE 0))

Score(lang, para, mine, theirs) ==
    IF para.words = 0 THEN Infinite
    ELSE Finite(Abs((mine + para.words) - theirs)
                + (IF streakLang = other(lang) /\ ~mustSwitch
                   THEN (targetStreakCount - streakCount) * 2 ELSE 0)
                + (IF streakLang = lang /\ mustSwitch THEN MustSwitchPenalty ELSE 0))

(* variant: a tie always goes to the starting language                     *)
ChooseLang_TieToStart(enPara, frPara) ==
    LET enScore == Score("en", enPara, enWordsUsed, frWordsUsed)
        frScore == Score("fr", frPara, frWordsUsed, enWordsUsed)
    IN  IF ScoreLess(enScore, frScore) THEN "en"
        ELSE IF ScoreLess(frScore, enScore) THEN "fr"
        ELSE startLang

ChooseLang(enPara, frPara) ==
    LET enScore == Score("en", enPara, enWordsUsed, frWordsUsed)
        frScore == Score("fr", frPara, frWordsUsed, enWordsUsed)
        wordGap == enWordsUsed - frWordsUsed
    IN  IF ScoreLess(enScore, frScore) THEN "en"
        ELSE IF ScoreLess(frScore, enScore) THEN "fr"
        ELSE IF wordGap > 0 /\ frPara.words > 0 THEN "fr"
        ELSE IF wordGap < 0 /\ enPara.words > 0 THEN "en"
        ELSE startLang

(* The first real paragraph is forced to the starting language.            *)
ForcedFirst(enPara, frPara) ==
    /\ streakLang = "none"
    /\ \/ startLang = "en" /\ enPara.words > 0
       \/ startLang = "fr" /\ frPara.words > 0

(* A call made on parsed input, with no page around it.                    *)
Direct ==
    /\ enText = <<>> /\ frText = <<>> /\ parsed = <<>>
    /\ mode = "none" /\ outputPreview = <<>> /\ validation = <<>> /\ click = "none"
    /\ practiceMode = NoPractice

InitMerge ==
    /\ Direct
    /\ call = "merge"
    /\ pc = "walk"
    /\ slideMode = "none" /\ mixedPattern = "none"
    /\ enSlides = <<>> /\ frSlides = <<>> /\ slidesOut = <<>>
    /\ cuts = <<>> /\ plan = NoPlan /\ bestDelta = 0 /\ iter = 0
    /\ startLang \in Langs
    /\ blockTime \in BlockTimes
    /\ \E texts \in SeqsUpTo(ParaPool, MaxParas) : enParagraphs = toParas(texts)
    /\ \E texts \in SeqsUpTo(ParaPool, MaxParas) : frParagraphs = toParas(texts)
    /\ targetStreakCount = TargetStreak(enParagraphs, frParagraphs, blockTime)
    /\ i = 0
    /\ enWordsUsed = 0 /\ frWordsUsed = 0 /\ enDur = 0 /\ frDur = 0
    /\ streakLang = "none" /\ streakDuration = 0 /\ streakCount = 0
    /\ outputParas = <<>> /\ choices = <<>> /\ walk = <<>>
    /\ result = NoResult

MergeFirst ==
    /\ pc = "walk" /\ i < totalPairs
    /\ LET enPara == ParaAt(enParagraphs, i)
           frPara == ParaAt(frParagraphs, i)
           chosenPara == IF startLang = "en" THEN enPara ELSE frPara
           dur == estimateDuration(chosenPara.text)
       IN  /\ enPara.text # EmptyText \/ frPara.text # EmptyText
           /\ ForcedFirst(enPara, frPara)
           /\ outputParas' = Append(outputParas, chosenPara.text)
           /\ enWordsUsed' = IF startLang = "en" THEN enWordsUsed + chosenPara.words ELSE enWordsUsed
           /\ frWordsUsed' = IF startLang = "fr" THEN frWordsUsed + chosenPara.words ELSE frWordsUsed
           /\ enDur' = IF startLang = "en" THEN enDur + dur ELSE enDur
           /\ frDur' = IF startLang = "fr" THEN frDur + dur ELSE frDur
           /\ streakLang' = startLang
           /\ streakDuration' = dur
           /\ streakCount' = 1
           /\ walk' = Append(walk, [lang |-> startLang, forced |-> TRUE])
    /\ i' = i + 1
    /\ UNCHANGED << pc, inputs, outside, slidesOut, mixedLocals, targetStreakCount, choices, result >>

MergeChoose ==
    /\ pc = "walk" /\ i < totalPairs
    /\ LET enPara == ParaAt(enParagraphs, i)
           frPara == ParaAt(frParagraphs, i)
           chosenLang == ChooseLang(enPara, frPara)
           chosenPara == IF chosenLang = "en" THEN enPara ELSE frPara
           altLang == other(chosenLang)
           altPara == IF altLang = "en" THEN enPara ELSE frPara
           dur == estimateDuration(chosenPara.text)
       IN  /\ ~ForcedFirst(enPara, frPara)
           /\ IF enPara.text = EmptyText /\ frPara.text = EmptyText
              THEN UNCHANGED << outputParas, choices, enWordsUsed, frWordsUsed, enDur, frDur,
                                streakLang, streakDuration, streakCount, walk >>
              ELSE /\ outputParas' = Append(outputParas, chosenPara.text)
                   /\ choices' = Append(choices, [lang |-> chosenLang, words |-> chosenPara.words,
                                                  altLang |-> altLang, altWords |-> altPara.words,
                                                  altText |-> altPara.text])
                   /\ enWordsUsed' = IF chosenLang = "en" THEN enWordsUsed + chosenPara.words ELSE enWordsUsed
                   /\ frWordsUsed' = IF chosenLang = "fr" THEN frWordsUsed + chosenPara.words ELSE frWordsUsed
                   /\ enDur' = IF chosenLang = "en" THEN enDur + dur ELSE enDur
                   /\ frDur' = IF chosenLang = "fr" THEN frDur + dur ELSE frDur
                   /\ streakLang' = chosenLang
                   /\ streakDuration' = IF streakLang = chosenLang THEN streakDuration + dur ELSE dur
                   /\ streakCount' = IF streakLang = chosenLang THEN streakCount + 1 ELSE 1
                   /\ walk' = Append(walk, [lang |-> chosenLang, forced |-> FALSE])
    /\ i' = i + 1
    /\ UNCHANGED << pc, inputs, outside, slidesOut, mixedLocals, targetStreakCount, result >>

(* Last-paragraph balancing. choices holds no entry for a forced first     *)
(* paragraph, and its entries have no text field.                          *)
SwapApplies ==
    /\ Len(choices) > 0
    /\ LET lastChoice == choices[Len(choices)]
           swapEn == IF lastChoice.lang = "en" THEN enWordsUsed - lastChoice.words
                     ELSE enWordsUsed + lastChoice.altWords
           swapFr == IF lastChoice.lang = "en" THEN frWordsUsed + lastChoice.altWords
                     ELSE frWordsUsed - lastChoice.words
       IN  /\ lastChoice.altWords > 0
           /\ Abs(swapEn - swapFr) < Abs(enWordsUsed - frWordsUsed)

(* lastIdx = choices.length - 1 (0-based) is the slot of outputParas the   *)
(* swap overwrites.                                                        *)
SwapSlot == Len(choices)

MergeBalance ==
    /\ pc = "walk" /\ i = totalPairs
    /\ IF SwapApplies
       THEN LET lastChoice == choices[Len(choices)]
                swapEn == IF lastChoice.lang = "en" THEN enWordsUsed - lastChoice.words
                          ELSE enWordsUsed + lastChoice.altWords
                swapFr == IF lastChoice.lang = "en" THEN frWordsUsed + lastChoice.altWords
                          ELSE frWordsUsed - lastChoice.words
                \* lastChoice.text is undefined: estimateDuration('') = 0
                removed == estimateDuration(EmptyText)
                added == estimateDuration(lastChoice.altText)
            IN  /\ enDur' = IF lastChoice.lang = "en" THEN enDur - removed ELSE enDur + added
                /\ frDur' = IF lastChoice.lang = "en" THEN frDur + added ELSE frDur - removed
                /\ outputParas' = [outputParas EXCEPT ![SwapSlot] = lastChoice.altText]
                /\ enWordsUsed' = swapEn
                /\ frWordsUsed' = swapFr
       ELSE UNCHANGED << enDur, frDur, outputParas, enWordsUsed, frWordsUsed >>
    /\ result' = [text |-> Join(outputParas', SEP),
                  enWords |-> enWordsUsed', frWords |-> frWordsUsed',
                  enDur |-> enDur', frDur |-> frDur']
    /\ pc' = "done"
    /\ UNCHANGED << inputs, outside, i, slidesOut, mixedLocals, targetStreakCount,
                    streakLang, streakDuration, streakCount, choices, walk >>

(* ------------------------- mergePresentation --------------------------- *)
NL == "\n"
PB == "\n\n"
SLIDESEP == "\n\n---\n\n"

(* A slide as parseSlides returns it: the trimmed heading line, the body   *)
(* (its paragraphs, a blank line between two), parseParagraphs of the body *)
(* and the words of the paragraphs.                                        *)
mkSlide(title, paragraphs) ==
    [title |-> title,
     body |-> Join(paragraphs, PB),
     paragraphs |-> paragraphs,
     words |-> Sum([k \in 1..Len(paragraphs) |-> countWords(paragraphs[k])])]

SinglePool == { mkSlide(<<"#", "a">>, <<>>),
                mkSlide(<<"#", "a">>, << <<"a">> >>),
                mkSlide(<<"#t">>, << <<"b,", "c.">>, <<"a">> >>) }

MixedPool == { mkSlide(<<"#", "a">>, <<>>),
               mkSlide(<<"#t">>, << <<"a">> >>),
               mkSlide(<<"#", "a">>, << <<"a">>, <<"b,", "c.">>, <<"a">> >>) }

(* `# Slide ${i + 1}`                                                      *)
fallbackTitle(idx) == <<"#", "Slide", ToString(idx + 1)>>
DefaultSlide(idx) == [title |-> fallbackTitle(idx), body |-> EmptyText,
                      paragraphs |-> <<>>, words |-> 0]
SlideAt(slides, idx) == IF idx + 1 <= Len(slides) THEN slides[idx + 1] ELSE DefaultSlide(idx)

totalSlides == Max(Len(enSlides), Len(frSlides))

(* `${title}\n${body}`.trim()                                              *)
SlideText(title, body) == IF body = EmptyText THEN title ELSE title \o <<NL>> \o body

(* variant: no alternation by slide index                                  *)
SingleStartLang_NoAlternation(idx) == startLang

(* The language alternation of single mode: by slide index.                *)
SingleStartLang(idx) == IF idx % 2 = 0 THEN startLang ELSE other(startLang)

(* variant: the content fallback only, no final-slide swap                 *)
SingleChoice_NoSwap(idx, enUsed, frUsed) ==
    LET sLang == SingleStartLang(idx)
        startSlide == IF sLang = "en" THEN SlideAt(enSlides, idx) ELSE SlideAt(frSlides, idx)
        otherSlide == IF sLang = "en" THEN SlideAt(frSlides, idx) ELSE SlideAt(enSlides, idx)
    IN  [title |-> IF startSlide.title # EmptyText THEN startSlide.title
                   ELSE IF otherSlide.title # EmptyText THEN otherSlide.title
                   ELSE fallbackTitle(idx),
         lang |-> IF startSlide.words > 0 THEN sLang ELSE other(sLang),
         slide |-> IF startSlide.words > 0 THEN startSlide ELSE otherSlide,
         swapped |-> FALSE]

(* The slide single mode chooses at index idx with the totals so far:      *)
(* the content fallback, then the final-slide swap.                        *)
SingleChoice(idx, enUsed, frUsed) ==
    LET enSlide == SlideAt(enSlides, idx)
        frSlide == SlideAt(frSlides, idx)
        sLang == SingleStartLang(idx)
        otherLang == other(sLang)
        startSlide == IF sLang = "en" THEN enSlide ELSE frSlide
        otherSlide == IF sLang = "en" THEN frSlide ELSE enSlide
        title == IF startSlide.title # EmptyText THEN startSlide.title
                 ELSE IF otherSlide.title # EmptyText THEN otherSlide.title
                 ELSE fallbackTitle(idx)
        chosenLang == IF startSlide.words > 0 THEN sLang ELSE otherLang
        chosenSlide == IF startSlide.words > 0 THEN startSlide ELSE otherSlide
        currentGap == Abs((enUsed + (IF chosenLang = "en" THEN chosenSlide.words ELSE 0))
                          - (frUsed + (IF chosenLang = "fr" THEN chosenSlide.words ELSE 0)))
        altLang == other(chosenLang)
        altSlide == IF chosenLang = sLang THEN otherSlide ELSE startSlide
        altGap == Abs((enUsed + (IF altLang = "en" THEN altSlide.words ELSE 0))
                      - (frUsed + (IF altLang = "fr" THEN altSlide.words ELSE 0)))
        swap == idx = totalSlides - 1 /\ otherSlide.words > 0 /\ altGap < currentGap
    IN  [title |-> title,
         lang |-> IF swap THEN altLang ELSE chosenLang,
         slide |-> IF swap THEN altSlide ELSE chosenSlide,
         swapped |-> swap]

InitSingle ==
    /\ Direct
    /\ call = "mergePresentation"
    /\ pc = "single"
    /\ slideMode = "single" /\ mixedPattern = "alternating"
    /\ enSlides \in SeqsUpTo(SinglePool, MaxSlides)
    /\ frSlides \in SeqsUpTo(SinglePool, MaxSlides)
    /\ startLang \in Langs
    /\ blockTime = 0
    /\ enParagraphs = <<>> /\ frParagraphs = <<>>
    /\ slidesOut = <<>>
    /\ cuts = <<>> /\ plan = NoPlan /\ bestDelta = 0 /\ iter = 0
    /\ i = 0
    /\ enWordsUsed = 0 /\ frWordsUsed = 0 /\ enDur = 0 /\ frDur = 0
    /\ streakLang = "none" /\ streakDuration = 0 /\ streakCount = 0
    /\ outputParas = <<>> /\ choices = <<>> /\ walk = <<>>
    /\ targetStreakCount = 0
    /\ result = NoResult

(* One iteration of the loop of single mode.                               *)
SingleSlide ==
    /\ pc = "single" /\ i < totalSlides
    /\ LET enSlide == SlideAt(enSlides, i)
           frSlide == SlideAt(frSlides, i)
           totalParas == Max(Len(enSlide.paragraphs), Len(frSlide.paragraphs))
           c == SingleChoice(i, enWordsUsed, frWordsUsed)
           text == SlideText(c.title, c.slide.body)
           dur == estimateDuration(c.title \o <<NL>> \o c.slide.body)
       IN  IF totalParas = 0
           THEN UNCHANGED << slidesOut, enWordsUsed, frWordsUsed, enDur, frDur, walk >>
           ELSE /\ slidesOut' = Append(slidesOut, [text |-> text])
                /\ enWordsUsed' = IF c.lang = "en" THEN enWordsUsed + c.slide.words ELSE enWordsUsed
                /\ frWordsUsed' = IF c.lang = "fr" THEN frWordsUsed + c.slide.words ELSE frWordsUsed
                /\ enDur' = IF c.lang = "en" THEN enDur + dur ELSE enDur
                /\ frDur' = IF c.lang = "fr" THEN frDur + dur ELSE frDur
                /\ walk' = Append(walk, [lang |-> c.lang, index |-> i, swapped |-> c.swapped])
    /\ i' = i + 1
    /\ UNCHANGED << pc, inputs, outside, mergeLocals, mixedLocals, result >>

SingleReturn ==
    /\ pc = "single" /\ i = totalSlides
    /\ result' = [text |-> Join([k \in 1..Len(slidesOut) |-> slidesOut[k].text], SLIDESEP),
                  enWords |-> enWordsUsed, frWords |-> frWordsUsed,
                  enDur |-> enDur, frDur |-> frDur]
    /\ pc' = "done"
    /\ UNCHANGED << inputs, outside, i, enWordsUsed, frWordsUsed, enDur, frDur, slidesOut, walk,
                    mergeLocals, mixedLocals >>

(* ------------------------------ mixed mode ----------------------------- *)
(* One entry of slidesMeta, for the slide index idx.                       *)
Meta(idx) ==
    LET enSlide == SlideAt(enSlides, idx)
        frSlide == SlideAt(frSlides, idx)
        totalParas == Max(Len(enSlide.paragraphs), Len(frSlide.paragraphs))
    IN  [index |-> idx,
         enSlide |-> enSlide,
         frSlide |-> frSlide,
         enParas |-> toParas(enSlide.paragraphs),
         frParas |-> toParas(frSlide.paragraphs),
         totalParas |-> totalParas,
         defaultCut |-> IF totalParas <= 1 THEN 1 ELSE (totalParas + 1) \div 2,
         fallbackTitle |-> fallbackTitle(idx)]

(* slidesMeta: the slides with at least one paragraph, in index order      *)
slidesMeta == SelectSeq([k \in 1..totalSlides |-> Meta(k - 1)], LAMBDA m : m.totalParas > 0)

(* the cut buildPlan uses for a slide: the clamp of cutsArr[meta.index]    *)
CutOf(meta, cutsArr) ==
    LET rawCut == cutsArr[meta.index + 1]
    IN  IF meta.totalParas <= 1 THEN 1
        ELSE Max(1, Min(meta.totalParas - 1, IF rawCut = 0 THEN meta.defaultCut ELSE rawCut))

(* variant: a paragraph taken through the fallback is booked under the    *)
(* planned language                                                        *)
ParaChoice_PlannedLang(meta, sLang, cut, idx) ==
    LET plannedLang == IF idx < cut THEN sLang ELSE other(sLang)
        primary == IF plannedLang = "en" THEN ParaAt(meta.enParas, idx) ELSE ParaAt(meta.frParas, idx)
        fallback == IF plannedLang = "en" THEN ParaAt(meta.frParas, idx) ELSE ParaAt(meta.enParas, idx)
    IN  IF primary.text # EmptyText
        THEN [text |-> primary.text, lang |-> plannedLang, words |-> primary.words, pos |-> idx]
        ELSE [text |-> fallback.text, lang |-> plannedLang, words |-> fallback.words,
              pos |-> idx]

(* variant: the position at the cut still takes the leading language      *)
ParaChoice_CutIncluded(meta, sLang, cut, idx) ==
    LET plannedLang == IF idx <= cut THEN sLang ELSE other(sLang)
        primary == IF plannedLang = "en" THEN ParaAt(meta.enParas, idx) ELSE ParaAt(meta.frParas, idx)
        fallback == IF plannedLang = "en" THEN ParaAt(meta.frParas, idx) ELSE ParaAt(meta.enParas, idx)
    IN  IF primary.text # EmptyText
        THEN [text |-> primary.text, lang |-> plannedLang, words |-> primary.words, pos |-> idx]
        ELSE [text |-> fallback.text, lang |-> other(plannedLang), words |-> fallback.words,
              pos |-> idx]

(* The paragraph buildPlan takes at position idx of a slide that leads     *)
(* with sLang: the planned language, or the other one when the planned     *)
(* one has no paragraph there. pos is kept as history.                     *)
ParaChoice(meta, sLang, cut, idx) ==
    LET plannedLang == IF idx < cut THEN sLang ELSE other(sLang)
        primary == IF plannedLang = "en" THEN ParaAt(meta.enParas, idx) ELSE ParaAt(meta.frParas, idx)
        fallback == IF plannedLang = "en" THEN ParaAt(meta.frParas, idx) ELSE ParaAt(meta.enParas, idx)
    IN  IF primary.text # EmptyText
        THEN [text |-> primary.text, lang |-> plannedLang, words |-> primary.words, pos |-> idx]
        ELSE [text |-> fallback.text, lang |-> other(plannedLang), words |-> fallback.words,
              pos |-> idx]

(* the loop over the positions of a slide: positions with no text in       *)
(* either language are skipped                                             *)
PlannedOrder(meta, sLang, cut) ==
    SelectSeq([k \in 1..meta.totalParas |-> ParaChoice(meta, sLang, cut, k - 1)],
              LAMBDA p : p.text # EmptyText)

(* The paragraph appended to a slide that came out in one language: the    *)
(* other language's paragraph at index totalParas - 1, when it has one.    *)
(* variant: the missing language is never appended                        *)
MissingPara_Never(meta, order) == <<>>

MissingPara(meta, order) ==
    LET langsUsed == {order[k].lang : k \in 1..Len(order)}
        missingLang == IF "en" \in langsUsed THEN "fr" ELSE "en"
        missingPara == IF missingLang = "en" THEN ParaAt(meta.enParas, meta.totalParas - 1)
                       ELSE ParaAt(meta.frParas, meta.totalParas - 1)
    IN  IF Len(order) > 0 /\ Cardinality(langsUsed) = 1 /\ missingPara.text # EmptyText
        THEN << [text |-> missingPara.text, lang |-> missingLang,
                 words |-> missingPara.words, pos |-> meta.totalParas - 1] >>
        ELSE <<>>

LangWords(order, lang) ==
    Sum([k \in 1..Len(order) |-> IF order[k].lang = lang THEN order[k].words ELSE 0])
LangDur(order, lang) ==
    Sum([k \in 1..Len(order) |-> IF order[k].lang = lang THEN estimateDuration(order[k].text) ELSE 0])

(* The slide buildPlan pushes for paraOrder: lead, cut, index, order and   *)
(* title are kept as history beside the code's text and endLang.           *)
SlideOf(meta, sLang, cut, paraOrder) ==
    LET startSlide == IF sLang = "en" THEN meta.enSlide ELSE meta.frSlide
        otherSlide == IF sLang = "en" THEN meta.frSlide ELSE meta.enSlide
        title == IF startSlide.title # EmptyText THEN startSlide.title
                 ELSE IF otherSlide.title # EmptyText THEN otherSlide.title
                 ELSE meta.fallbackTitle
        parts == IF Len(paraOrder) > 0
                 THEN <<title, Join([k \in 1..Len(paraOrder) |-> paraOrder[k].text], PB)>>
                 ELSE <<title>>
    IN  [text |-> Join(parts, PB),
         endLang |-> IF Len(paraOrder) > 0 THEN paraOrder[Len(paraOrder)].lang ELSE sLang,
         index |-> meta.index, lead |-> sLang, cut |-> cut, order |-> paraOrder,
         title |-> title]

PlanSlide(meta, sLang, cutsArr) ==
    Only({ Only({ SlideOf(meta, sLang, cut, paraOrder) :
                    paraOrder \in { Only({ planned \o MissingPara(meta, planned) :
                                             planned \in {PlannedOrder(meta, sLang, cut)} }) } })
           : cut \in {CutOf(meta, cutsArr)} })

(* One iteration of buildPlan's loop over slidesMeta: acc holds the        *)
(* totals and lastEndLang.                                                 *)
AddSlide(acc, meta, cutsArr) ==
    LET sLang == IF mixedPattern = "repeating" THEN startLang
                 ELSE IF Len(acc.slidesOut) = 0 THEN startLang ELSE acc.lastEndLang
    IN  Only({ [slidesOut |-> Append(acc.slidesOut, sl),
                enWords |-> acc.enWords + LangWords(sl.order, "en"),
                frWords |-> acc.frWords + LangWords(sl.order, "fr"),
                enDur |-> acc.enDur + LangDur(sl.order, "en")
                          + (IF sLang = "en" THEN estimateDuration(sl.title) ELSE 0),
                frDur |-> acc.frDur + LangDur(sl.order, "fr")
                          + (IF sLang = "en" THEN 0 ELSE estimateDuration(sl.title)),
                lastEndLang |-> sl.endLang]
               : sl \in {PlanSlide(meta, sLang, cutsArr)} })

RECURSIVE BuildFrom(_, _, _, _)
BuildFrom(metas, k, cutsArr, acc) ==
    IF k > Len(metas) THEN acc
    ELSE Only({ BuildFrom(metas, k + 1, cutsArr, next) :
                  next \in {AddSlide(acc, metas[k], cutsArr)} })

buildPlan(cutsArr) ==
    Only({ [slidesOut |-> p.slidesOut, enWords |-> p.enWords, frWords |-> p.frWords,
            enDur |-> p.enDur, frDur |-> p.frDur]
           : p \in { Only({ BuildFrom(metas, 1, cutsArr,
                                      [slidesOut |-> <<>>, enWords |-> 0, frWords |-> 0,
                                       enDur |-> 0, frDur |-> 0, lastEndLang |-> startLang])
                            : metas \in {slidesMeta} }) } })

PlanDelta(p) == Abs(p.enDur - p.frDur)

(* variant: the default cut is the floor of half the paragraph count      *)
DefaultCuts_Floor == [k \in 1..totalSlides |->
                         IF Meta(k - 1).totalParas > 0
                         THEN Max(1, Meta(k - 1).totalParas \div 2) ELSE 0]

(* Array(totalSlides).fill(undefined), then the default cut of every       *)
(* slide of slidesMeta                                                     *)
DefaultCuts == [k \in 1..totalSlides |->
                   IF Meta(k - 1).totalParas > 0 THEN Meta(k - 1).defaultCut ELSE 0]

maxIterations == Max(1, Len(slidesMeta) * 4)

(* The cut arrays one iteration of the local search tries for one slide,   *)
(* in the order it tries them: cut - 1 then cut + 1, when in range.        *)
TestCutsOf(meta, cutsArr) ==
    LET currentCut == cutsArr[meta.index + 1]
        down == IF currentCut - 1 >= 1
                THEN << [cutsArr EXCEPT ![meta.index + 1] = currentCut - 1] >> ELSE <<>>
        up == IF currentCut + 1 <= meta.totalParas - 1
              THEN << [cutsArr EXCEPT ![meta.index + 1] = currentCut + 1] >> ELSE <<>>
    IN  IF meta.totalParas <= 1 THEN <<>> ELSE down \o up

RECURSIVE TestCutsFrom(_, _, _)
TestCutsFrom(metas, k, cutsArr) ==
    IF k > Len(metas) THEN <<>>
    ELSE TestCutsOf(metas[k], cutsArr) \o TestCutsFrom(metas, k + 1, cutsArr)

(* variant: the first cut array tried stays the candidate                  *)
Better_First(best, testCuts) ==
    Only({ IF ~best.some
           THEN [some |-> TRUE, cuts |-> testCuts, plan |-> testPlan,
                 delta |-> PlanDelta(testPlan)]
           ELSE best
           : testPlan \in {buildPlan(testCuts)} })

(* candidate after one more tried cut array: replaced when there is none   *)
(* yet or the new delta is strictly smaller                                *)
Better(best, testCuts) ==
    Only({ IF ~best.some \/ PlanDelta(testPlan) < best.delta
           THEN [some |-> TRUE, cuts |-> testCuts, plan |-> testPlan,
                 delta |-> PlanDelta(testPlan)]
           ELSE best
           : testPlan \in {buildPlan(testCuts)} })

RECURSIVE BestFrom(_, _, _)
BestFrom(tests, k, best) ==
    IF k > Len(tests) THEN best
    ELSE Only({ BestFrom(tests, k + 1, b) : b \in {Better(best, tests[k])} })

NoCandidate == [some |-> FALSE, cuts |-> <<>>, plan |-> NoPlan, delta |-> 0]
Candidate(cutsArr) ==
    Only({ BestFrom(tests, 1, NoCandidate) :
             tests \in { Only({ TestCutsFrom(metas, 1, cutsArr) : metas \in {slidesMeta} }) } })

(* variant: any candidate is adopted                                       *)
Improves_Always(cand, best) == cand.some

(* variant: a candidate that is not worse is adopted                       *)
Improves_NotWorse(cand, best) == cand.some /\ cand.delta <= best

(* candidate && candidate.delta + 1e-6 < bestDelta: the deltas are whole   *)
(* multiples of one unit (0.4 s), so the epsilon decides nothing           *)
Improves(cand, best) == cand.some /\ cand.delta < best

InitMixed ==
    /\ Direct
    /\ call = "mergePresentation"
    /\ pc = "mixed"
    /\ slideMode = "mixed" /\ mixedPattern \in {"alternating", "repeating"}
    /\ enSlides \in SeqsUpTo(MixedPool, MaxMixedSlides)
    /\ frSlides \in SeqsUpTo(MixedPool, MaxMixedSlides)
    /\ startLang \in Langs
    /\ blockTime = 0
    /\ enParagraphs = <<>> /\ frParagraphs = <<>>
    /\ slidesOut = <<>>
    /\ cuts = <<>> /\ plan = NoPlan /\ bestDelta = 0 /\ iter = 0
    /\ i = 0
    /\ enWordsUsed = 0 /\ frWordsUsed = 0 /\ enDur = 0 /\ frDur = 0
    /\ streakLang = "none" /\ streakDuration = 0 /\ streakCount = 0
    /\ outputParas = <<>> /\ choices = <<>> /\ walk = <<>>
    /\ targetStreakCount = 0
    /\ result = NoResult

(* slidesMeta, the default cuts and the initial plan                       *)
MixedStart ==
    /\ pc = "mixed"
    /\ cuts' = DefaultCuts
    /\ \E p \in {buildPlan(DefaultCuts)} :
          /\ plan' = p
          /\ bestDelta' = PlanDelta(p)
    /\ iter' = 0
    /\ pc' = "search"
    /\ UNCHANGED << inputs, outside, i, enWordsUsed, frWordsUsed, enDur, frDur, slidesOut, walk,
                    mergeLocals, result >>

(* One iteration of the local search that adopts its candidate.            *)
SearchStep ==
    /\ pc = "search" /\ iter < maxIterations
    /\ \E candidate \in {Candidate(cuts)} :
          /\ Improves(candidate, bestDelta)
          /\ cuts' = candidate.cuts
          /\ plan' = candidate.plan
          /\ bestDelta' = candidate.delta
    /\ iter' = iter + 1
    /\ UNCHANGED << pc, inputs, outside, i, enWordsUsed, frWordsUsed, enDur, frDur, slidesOut, walk,
                    mergeLocals, result >>

(* The loop ends, on its budget or on an iteration that finds no improving *)
(* move, and the plan is returned.                                         *)
MixedReturn ==
    /\ pc = "search"
    /\ iter >= maxIterations \/ \E candidate \in {Candidate(cuts)} : ~Improves(candidate, bestDelta)
    /\ result' = [text |-> Join([k \in 1..Len(plan.slidesOut) |-> plan.slidesOut[k].text], SLIDESEP),
                  enWords |-> plan.enWords, frWords |-> plan.frWords,
                  enDur |-> plan.enDur, frDur |-> plan.frDur]
    /\ pc' = "done"
    /\ UNCHANGED << inputs, outside, i, enWordsUsed, frWordsUsed, enDur, frDur, slidesOut, walk,
                    mergeLocals, mixedLocals >>

Init == InitMerge \/ InitSingle \/ InitMixed
Next ==
    \/ MergeFirst \/ MergeChoose \/ MergeBalance
    \/ SingleSlide \/ SingleReturn
    \/ MixedStart \/ SearchStep \/ MixedReturn

Spec == Init /\ [][Next]_vars

(* A run on inputs of equal word count: merge on n paragraphs per language *)
(* that all have the same text.                                            *)
MaxUniform == 6
UniformBlockTimes == {0, 1, 2}

InitUniform ==
    /\ Direct
    /\ call = "merge"
    /\ pc = "walk"
    /\ slideMode = "none" /\ mixedPattern = "none"
    /\ enSlides = <<>> /\ frSlides = <<>> /\ slidesOut = <<>>
    /\ cuts = <<>> /\ plan = NoPlan /\ bestDelta = 0 /\ iter = 0
    /\ startLang \in Langs
    /\ blockTime \in UniformBlockTimes
    /\ \E n \in 0..MaxUniform, text \in ParaPool :
          /\ enParagraphs = toParas([k \in 1..n |-> text])
          /\ frParagraphs = toParas([k \in 1..n |-> text])
    /\ targetStreakCount = TargetStreak(enParagraphs, frParagraphs, blockTime)
    /\ i = 0
    /\ enWordsUsed = 0 /\ frWordsUsed = 0 /\ enDur = 0 /\ frDur = 0
    /\ streakLang = "none" /\ streakDuration = 0 /\ streakCount = 0
    /\ outputParas = <<>> /\ choices = <<>> /\ walk = <<>>
    /\ result = NoResult

SpecUniform == InitUniform /\ [][MergeFirst \/ MergeChoose \/ MergeBalance]_vars

(* ---------------------- merge, from its options ------------------------ *)
(* parseInt(string, 10): leading whitespace is skipped, then an optional   *)
(* sign and the longest run of decimal digits are read; NaN when there is  *)
(* no digit. A number passed as options.blockTime is read from its string. *)
Digits == {"0", "1", "2", "3", "4", "5", "6", "7", "8", "9"}
DigitValue(c) ==
    CASE c = "0" -> 0 [] c = "1" -> 1 [] c = "2" -> 2 [] c = "3" -> 3 [] c = "4" -> 4
      [] c = "5" -> 5 [] c = "6" -> 6 [] c = "7" -> 7 [] c = "8" -> 8 [] c = "9" -> 9

RECURSIVE DigitsFrom(_, _, _)
DigitsFrom(chars, p, acc) ==
    IF p > Len(chars) \/ chars[p] \notin Digits THEN acc
    ELSE DigitsFrom(chars, p + 1, acc * 10 + DigitValue(chars[p]))

parseInt(string) ==
    LET chars == TrimLeft(string)
        signed == chars # <<>> /\ chars[1] \in {"+", "-"}
        first == IF signed THEN 2 ELSE 1
        magnitude == DigitsFrom(chars, first, 0)
    IN  IF first > Len(chars) \/ chars[first] \notin Digits
        THEN [nan |-> TRUE, val |-> 0]
        ELSE [nan |-> FALSE, val |-> IF signed /\ chars[1] = "-" THEN 0 - magnitude ELSE magnitude]

(* parseInt(options.blockTime, 10) || 45: NaN and 0 are falsy              *)
baseBlockTime(string) ==
    Only({ IF n.nan \/ n.val = 0 THEN 45 ELSE n.val : n \in {parseInt(string)} })

(* the strings options.blockTime is read from                              *)
BlockTimeStrings ==
    { <<>>, <<"0">>, <<"-", "0">>, <<"a">>, <<"-">>, <<"1">>, <<"4", "5">>, <<" ", "7">>,
      <<"3", "x">>, <<"0", ".", "4">>, <<"-", "5">>, <<"-", "9", "0">>, <<"6", "0", "0">>,
      <<"+", "2">> }

(* paragraphs of merge: also one with no word for the estimate             *)
StreakPool == { <<"a">>, <<"***">>, <<"a", "a", "a">> }

(* merge entered with its options still unread: n and m paragraphs of one  *)
(* text each                                                               *)
InitStreak ==
    /\ Direct
    /\ call = "merge"
    /\ pc = "start"
    /\ slideMode = "none" /\ mixedPattern = "none"
    /\ enSlides = <<>> /\ frSlides = <<>> /\ slidesOut = <<>>
    /\ cuts = <<>> /\ plan = NoPlan /\ bestDelta = 0 /\ iter = 0
    /\ startLang = "en"
    /\ blockTime \in BlockTimeStrings
    /\ \E n \in 0..MaxUniform, text \in StreakPool :
          enParagraphs = toParas([k \in 1..n |-> text])
    /\ \E m \in 0..MaxUniform, text \in StreakPool :
          frParagraphs = toParas([k \in 1..m |-> text])
    /\ targetStreakCount = 0
    /\ i = 0
    /\ enWordsUsed = 0 /\ frWordsUsed = 0 /\ enDur = 0 /\ frDur = 0
    /\ streakLang = "none" /\ streakDuration = 0 /\ streakCount = 0
    /\ outputParas = <<>> /\ choices = <<>> /\ walk = <<>>
    /\ result = NoResult

(* The statements of merge before its loop. baseBlockTime is never 0, so   *)
(* reading it again as a number gives baseBlockTime itself.                *)
MergeStart ==
    /\ call = "merge" /\ pc = "start"
    /\ targetStreakCount' = TargetStreak(enParagraphs, frParagraphs, baseBlockTime(blockTime))
    /\ pc' = "walk"
    /\ UNCHANGED << inputs, outside, i, enWordsUsed, frWordsUsed, enDur, frDur, slidesOut, walk,
                    streakLang, streakDuration, streakCount, outputParas, choices,
                    mixedLocals, result >>

NextStreak == MergeStart \/ MergeFirst \/ MergeChoose \/ MergeBalance
SpecStreak == InitStreak /\ [][NextStreak]_vars

(* mergePresentation in mixed mode alone. The method is one synchronous    *)
(* call: a step that can be taken is taken, so the run is weakly fair.     *)
NextMixed == MixedStart \/ SearchStep \/ MixedReturn
SpecMixed == InitMixed /\ [][NextMixed]_vars /\ WF_vars(NextMixed)

(* Mixed mode on slides of up to five paragraphs, where a cut has room to  *)
(* move both ways.                                                         *)
LongPool == { mkSlide(<<"#", "a">>, << <<"a">> >>),
              mkSlide(<<"#t">>, << <<"a">>, <<"b,", "c.">>, <<"a", "a", "a">>, <<"a">> >>),
              mkSlide(<<"#", "a">>, << <<"a", "a", "a">>, <<"a">>, <<"a">>, <<"b,", "c.">>,
                                      <<"a">> >>) }

InitMixedLong ==
    /\ Direct
    /\ call = "mergePresentation"
    /\ pc = "mixed"
    /\ slideMode = "mixed" /\ mixedPattern \in {"alternating", "repeating"}
    /\ enSlides \in SeqsUpTo(LongPool, MaxMixedSlides)
    /\ frSlides \in SeqsUpTo(LongPool, MaxMixedSlides)
    /\ startLang \in Langs
    /\ blockTime = 0
    /\ enParagraphs = <<>> /\ frParagraphs = <<>>
    /\ slidesOut = <<>>
    /\ cuts = <<>> /\ plan = NoPlan /\ bestDelta = 0 /\ iter = 0
    /\ i = 0
    /\ enWordsUsed = 0 /\ frWordsUsed = 0 /\ enDur = 0 /\ frDur = 0
    /\ streakLang = "none" /\ streakDuration = 0 /\ streakCount = 0
    /\ outputParas = <<>> /\ choices = <<>> /\ walk = <<>>
    /\ targetStreakCount = 0
    /\ result = NoResult

SpecMixedLong == InitMixedLong /\ [][NextMixed]_vars

(* ------------------------- calls on raw texts -------------------------- *)
(* Raw texts: up to MaxDocLines lines, each a heading, a word or blank.    *)
MaxDocLines == 3
DocLines == { <<>>, <<"a">>, <<"#">> }
Docs == { JoinLines(ls, 1) : ls \in SeqsUpTo(DocLines, MaxDocLines) }

(* A parsed slide with its title and paragraphs as token sequences.        *)
toSlides(raw) ==
    [k \in 1..Len(raw) |->
        mkSlide(Tokens(raw[k].title),
                [j \in 1..Len(raw[k].paragraphs) |-> Tokens(raw[k].paragraphs[j])])]

(* mergePresentation(englishText, frenchText, options) before it parses    *)
InitPresentationText ==
    /\ call = "mergePresentation"
    /\ pc = "parse"
    /\ slideMode \in {"single", "mixed"}
    /\ mixedPattern \in {"alternating", "repeating"}
    /\ slideMode = "single" => mixedPattern = "alternating"
    /\ enText \in Docs /\ frText \in Docs
    /\ parsed = <<>>
    /\ mode = "none" /\ outputPreview = <<>> /\ validation = <<>> /\ click = "none"
    /\ practiceMode = NoPractice
    /\ enSlides = <<>> /\ frSlides = <<>>
    /\ startLang \in Langs
    /\ blockTime = 0
    /\ enParagraphs = <<>> /\ frParagraphs = <<>>
    /\ slidesOut = <<>>
    /\ cuts = <<>> /\ plan = NoPlan /\ bestDelta = 0 /\ iter = 0
    /\ i = 0
    /\ enWordsUsed = 0 /\ frWordsUsed = 0 /\ enDur = 0 /\ frDur = 0
    /\ streakLang = "none" /\ streakDuration = 0 /\ streakCount = 0
    /\ outputParas = <<>> /\ choices = <<>> /\ walk = <<>>
    /\ targetStreakCount = 0
    /\ result = NoResult

(* the first two lines of mergePresentation                                *)
PresentationParse ==
    /\ call = "mergePresentation" /\ pc = "parse"
    /\ enSlides' = toSlides(parseSlides(enText))
    /\ frSlides' = toSlides(parseSlides(frText))
    /\ pc' = IF slideMode = "single" THEN "single" ELSE "mixed"
    /\ UNCHANGED << call, slideMode, mixedPattern, startLang, blockTime,
                    enParagraphs, frParagraphs, enText, frText, outside,
                    i, enWordsUsed, frWordsUsed, enDur, frDur, slidesOut, walk,
                    mergeLocals, mixedLocals, result >>

(* mergePresentation on raw texts. No text this short holds a slide of     *)
(* three paragraphs, so the local search has no cut to move.               *)
NextPresentationText ==
    \/ PresentationParse
    \/ SingleSlide \/ SingleReturn
    \/ MixedStart \/ MixedReturn
SpecPresentationText == InitPresentationText /\ [][NextPresentationText]_vars

(* ------------------------- the generate button ------------------------- *)
(* The first paragraph count mismatch of the paired slides, as the message *)
(* the loop over the slides shows for it; <<>> when there is none.         *)
RECURSIVE ParagraphMismatch(_, _, _)
ParagraphMismatch(es, fs, k) ==
    IF k > Len(es) THEN <<>>
    ELSE IF Len(es[k].paragraphs) # Len(fs[k].paragraphs)
         THEN <<"validationParagraphs", Len(es[k].paragraphs), Len(fs[k].paragraphs)>>
         ELSE ParagraphMismatch(es, fs, k + 1)

(* variant: the paragraphs of paired slides are not compared               *)
Validate_NoParagraphCheck(en, fr, m) ==
    IF en = <<>> \/ fr = <<>> THEN <<"validationMissing">>
    ELSE IF m = "presentation"
         THEN LET es == parseSlides(en)
                  fs == parseSlides(fr)
              IN  IF Len(es) = 0 /\ Len(fs) = 0 THEN <<"validationNoSlides">>
                  ELSE IF Len(es) = 0 THEN <<"validationNoEnSlides">>
                  ELSE IF Len(fs) = 0 THEN <<"validationNoFrSlides">>
                  ELSE IF Len(es) # Len(fs) THEN <<"validationSlides", Len(es), Len(fs)>>
                  ELSE <<>>
         ELSE LET enParas == parseParagraphs(en)
                  frParas == parseParagraphs(fr)
              IN  IF Len(enParas) # Len(frParas)
                  THEN <<"validationParagraphs", Len(enParas), Len(frParas)>>
                  ELSE <<>>

(* The message the click handler shows and returns on, <<>> when it goes   *)
(* on to the merge.                                                        *)
Validate(en, fr, m) ==
    IF en = <<>> \/ fr = <<>> THEN <<"validationMissing">>
    ELSE IF m = "presentation"
         THEN LET es == parseSlides(en)
                  fs == parseSlides(fr)
              IN  IF Len(es) = 0 /\ Len(fs) = 0 THEN <<"validationNoSlides">>
                  ELSE IF Len(es) = 0 THEN <<"validationNoEnSlides">>
                  ELSE IF Len(fs) = 0 THEN <<"validationNoFrSlides">>
                  ELSE IF Len(es) # Len(fs) THEN <<"validationSlides", Len(es), Len(fs)>>
                  ELSE ParagraphMismatch(es, fs, 1)
         ELSE LET enParas == parseParagraphs(en)
                  frParas == parseParagraphs(fr)
              IN  IF Len(enParas) # Len(frParas)
                  THEN <<"validationParagraphs", Len(enParas), Len(frParas)>>
                  ELSE <<>>

(* The text the page shows from an earlier click: none, or a merged text.  *)
PreviousOutputs == { <<>>, <<"a">> }

(* The page with both texts typed and the button idle; the start language  *)
(* radio and the block time field are as the page loads them.              *)
InitPage ==
    /\ click = "idle"
    /\ call = "none" /\ pc = "idle"
    /\ mode \in {"speech", "presentation"}
    /\ slideMode \in {"single", "mixed"}
    /\ mode = "speech" => slideMode = "single"
    /\ mixedPattern = "alternating"
    /\ startLang = "en"
    /\ blockTime = 0
    /\ enText \in Docs /\ frText \in Docs
    /\ outputPreview \in PreviousOutputs
    /\ practiceMode = NoPractice
    /\ validation = <<>>
    /\ parsed = <<>>
    /\ enSlides = <<>> /\ frSlides = <<>>
    /\ enParagraphs = <<>> /\ frParagraphs = <<>>
    /\ slidesOut = <<>>
    /\ cuts = <<>> /\ plan = NoPlan /\ bestDelta = 0 /\ iter = 0
    /\ i = 0
    /\ enWordsUsed = 0 /\ frWordsUsed = 0 /\ enDur = 0 /\ frDur = 0
    /\ streakLang = "none" /\ streakDuration = 0 /\ streakCount = 0
    /\ outputParas = <<>> /\ choices = <<>> /\ walk = <<>>
    /\ targetStreakCount = 0
    /\ result = NoResult

(* The click handler up to its return on a validation message or to its    *)
(* call of merge or mergePresentation.                                     *)
Generate ==
    /\ click = "idle"
    /\ \E msg \in {Validate(enText, frText, mode)} :
          /\ validation' = msg
          /\ IF msg # <<>>
             THEN /\ click' = "rejected"
                  /\ UNCHANGED << call, pc >>
             ELSE /\ click' = "running"
                  /\ call' = IF mode = "presentation" THEN "mergePresentation" ELSE "merge"
                  /\ pc' = "parse"
    /\ UNCHANGED << slideMode, mixedPattern, enSlides, frSlides, startLang, blockTime,
                    enParagraphs, frParagraphs, enText, frText,
                    parsed, mode, outputPreview, practiceMode,
                    i, enWordsUsed, frWordsUsed, enDur, frDur, slidesOut, walk,
                    mergeLocals, mixedLocals, result >>

(* the first lines of merge: both texts parsed, the target streak computed *)
MergeParse ==
    /\ call = "merge" /\ pc = "parse"
    /\ \E en \in {toParas([k \in 1..Len(parseParagraphs(enText)) |->
                              Tokens(parseParagraphs(enText)[k])])},
          fr \in {toParas([k \in 1..Len(parseParagraphs(frText)) |->
                              Tokens(parseParagraphs(frText)[k])])} :
          /\ enParagraphs' = en
          /\ frParagraphs' = fr
          /\ targetStreakCount' = TargetStreak(en, fr, blockTime)
    /\ pc' = "walk"
    /\ UNCHANGED << call, slideMode, mixedPattern, enSlides, frSlides, startLang, blockTime,
                    enText, frText, outside,
                    i, enWordsUsed, frWordsUsed, enDur, frDur, slidesOut, walk,
                    streakLang, streakDuration, streakCount, outputParas, choices,
                    mixedLocals, result >>

(* The end of the click handler: the returned text is displayed.           *)
GenerateShow ==
    /\ click = "running" /\ pc = "done"
    /\ outputPreview' = result.text
    /\ click' = "shown"
    /\ UNCHANGED << pc, inputs, parsed, mode, validation, practiceMode,
                    i, enWordsUsed, frWordsUsed, enDur, frDur, slidesOut, walk,
                    mergeLocals, mixedLocals, result >>

(* One click on the page. No text this short holds a slide of three        *)
(* paragraphs, so the local search has no cut to move.                     *)
NextPage ==
    \/ Generate \/ GenerateShow
    \/ MergeParse \/ MergeFirst \/ MergeChoose \/ MergeBalance
    \/ PresentationParse \/ SingleSlide \/ SingleReturn
    \/ MixedStart \/ MixedReturn
SpecPage == InitPage /\ [][NextPage]_vars

(* ---------------- the parsing and estimating functions ----------------- *)
(* Raw texts of up to MaxChars characters, for the parsers.                *)
MaxChars == 6
Chars == {"a", "#", " ", "\n", "\r"}
RawTexts == SeqsUpTo(Chars, MaxChars)

(* Texts of up to MaxWords words, a space between two, for the estimate.   *)
MaxWords == 3
WordChars == { <<"a">>, <<"b", ",">>, <<"c", ".">>, <<"*", "*", "*">> }
RECURSIVE SpacedFrom(_, _)
SpacedFrom(ws, k) ==
    IF k > Len(ws) THEN <<>>
    ELSE IF k = Len(ws) THEN ws[k]
    ELSE ws[k] \o <<" ">> \o SpacedFrom(ws, k + 1)
WordTexts == { SpacedFrom(ws, 1) : ws \in SeqsUpTo(WordChars, MaxWords) }

(* (units / this.wpm) * 60, in milliseconds                                *)
Millis(units) == (units * 60 * 1000) \div wpm

(* A call of one function, nothing else of the merger or the page running. *)
InitFunction ==
    /\ call \in {"parseParagraphs", "parseSlides", "estimateDuration"}
    /\ pc = "call"
    /\ enText \in (IF call = "estimateDuration" THEN WordTexts ELSE RawTexts)
    /\ frText = <<>>
    /\ parsed = <<>>
    /\ mode = "none" /\ outputPreview = <<>> /\ validation = <<>> /\ click = "none"
    /\ practiceMode = NoPractice
    /\ slideMode = "none" /\ mixedPattern = "none"
    /\ enSlides = <<>> /\ frSlides = <<>> /\ slidesOut = <<>>
    /\ cuts = <<>> /\ plan = NoPlan /\ bestDelta = 0 /\ iter = 0
    /\ startLang = "en" /\ blockTime = 0
    /\ enParagraphs = <<>> /\ frParagraphs = <<>>
    /\ i = 0
    /\ enWordsUsed = 0 /\ frWordsUsed = 0 /\ enDur = 0 /\ frDur = 0
    /\ streakLang = "none" /\ streakDuration = 0 /\ streakCount = 0
    /\ outputParas = <<>> /\ choices = <<>> /\ walk = <<>>
    /\ targetStreakCount = 0
    /\ result = NoResult

(* what a call of a function leaves alone: all but pc and parsed           *)
functionFrame ==
    << inputs, mode, outputPreview, validation, click, practiceMode,
       i, enWordsUsed, frWordsUsed, enDur, frDur, slidesOut, walk,
       mergeLocals, mixedLocals, result >>

ParseParagraphsCall ==
    /\ call = "parseParagraphs" /\ pc = "call"
    /\ parsed' = parseParagraphs(enText)
    /\ pc' = "returned"
    /\ UNCHANGED functionFrame

ParseSlidesCall ==
    /\ call = "parseSlides" /\ pc = "call"
    /\ parsed' = parseSlides(enText)
    /\ pc' = "returned"
    /\ UNCHANGED functionFrame

(* estimateDuration of the text, and of its word count                     *)
EstimateDurationCall ==
    /\ call = "estimateDuration" /\ pc = "call"
    /\ \E words \in {Tokens(enText)} :
          parsed' = [ofText |-> Millis(estimateDuration(words)),
                     ofCount |-> Millis(countWords(words))]
    /\ pc' = "returned"
    /\ UNCHANGED functionFrame

SpecFunctions ==
    InitFunction /\ [][ParseParagraphsCall \/ ParseSlidesCall \/ EstimateDurationCall]_vars

(* -------------------------- PracticeController ------------------------- *)
(* openFromMerged on the characters of the merged text. No text used holds *)
(* a double quote, a guillemet or a '|'.                                   *)
RECURSIVE RunEnd(_, _)
RunEnd(chars, p) ==
    IF p < Len(chars) /\ chars[p + 1] = chars[p] THEN RunEnd(chars, p + 1) ELSE p

(* .replace(/[*]{3,}|[-]{3,}/g, ' ')                                       *)
RECURSIVE CleanSeparators(_, _)
CleanSeparators(chars, p) ==
    IF p > Len(chars) THEN <<>>
    ELSE IF chars[p] \in {"*", "-"} /\ RunEnd(chars, p) - p + 1 >= 3
         THEN <<" ">> \o CleanSeparators(chars, RunEnd(chars, p) + 1)
         ELSE <<chars[p]>> \o CleanSeparators(chars, p + 1)

(* .replace(/\s+/g, ' ')                                                   *)
RECURSIVE CollapseSpaces(_, _)
CollapseSpaces(chars, p) ==
    IF p > Len(chars) THEN <<>>
    ELSE IF IsSpace(chars[p])
         THEN <<" ">> \o CollapseSpaces(chars, SpaceRunEnd(chars, p) + 1)
         ELSE <<chars[p]>> \o CollapseSpaces(chars, p + 1)

(* .replace(/([.!?])\s+/g, '$1|').split('|')                               *)
RECURSIVE SentencesFrom(_, _, _)
SentencesFrom(chars, p, cur) ==
    IF p > Len(chars) THEN <<cur>>
    ELSE IF chars[p] \in {".", "!", "?"} /\ p < Len(chars) /\ IsSpace(chars[p + 1])
         THEN <<Append(cur, chars[p])>>
              \o SentencesFrom(chars, SpaceRunEnd(chars, p + 1) + 1, <<>>)
         ELSE SentencesFrom(chars, p + 1, Append(cur, chars[p]))

(* trimmed.match(/\S+/g) || [], every word a sequence of characters        *)
RECURSIVE WordsFrom(_, _, _)
WordsFrom(chars, p, cur) ==
    IF p > Len(chars) THEN (IF cur = <<>> THEN <<>> ELSE <<cur>>)
    ELSE IF IsSpace(chars[p])
         THEN (IF cur = <<>> THEN <<>> ELSE <<cur>>) \o WordsFrom(chars, p + 1, <<>>)
         ELSE WordsFrom(chars, p + 1, Append(cur, chars[p]))

(* this.content of openFromMerged: the sentences that are not blank        *)
Content(mergedText) ==
    LET cleanedText == CollapseSpaces(CleanSeparators(mergedText, 1), 1)
        sentences == SentencesFrom(cleanedText, 1, <<>>)
        kept == SelectSeq([k \in 1..Len(sentences) |-> Trim(sentences[k])],
                          LAMBDA trimmed : trimmed # <<>>)
    IN  [k \in 1..Len(kept) |-> [text |-> kept[k], words |-> WordsFrom(kept[k], 1, <<>>)]]

(* this.baseDelay = 60000 / this.wpm, with the slider at 150               *)
baseDelay == 60000 \div wpm

(* variant: no pause for a '#'                                             *)
calculateTotalDuration_NoHeading(content) ==
    Sum([k \in 1..Len(content) |->
           Len(content[k].words) * baseDelay
           + Sum([j \in 1..Len(content[k].words) |->
                    IF content[k].words[j][Len(content[k].words[j])] \in {",", ";", ":"}
                    THEN baseDelay ELSE 0])
           + (IF content[k].text[Len(content[k].text)] \in {".", "!", "?"}
              THEN baseDelay * 2 ELSE 0)])

calculateTotalDuration(content) ==
    Sum([k \in 1..Len(content) |->
           Len(content[k].words) * baseDelay
           + Sum([j \in 1..Len(content[k].words) |->
                    (IF content[k].words[j][Len(content[k].words[j])] \in {",", ";", ":"}
                     THEN baseDelay ELSE 0)
                    + (IF content[k].words[j] = <<"#">> THEN baseDelay * 2 ELSE 0)])
           + (IF content[k].text[Len(content[k].text)] \in {".", "!", "?"}
              THEN baseDelay * 2 ELSE 0)])

(* clearTimeout(this.timer): a timeout that has run is no longer pending   *)
ClearTimer(pm) == [pm EXCEPT !.timeouts = SelectSeq(@, LAMBDA t : ~t.timer)]

(* this.timer = setTimeout(...)                                            *)
SetTimer(pm, kind) ==
    [pm EXCEPT !.timeouts = Append([k \in 1..Len(@) |-> [@[k] EXCEPT !.timer = FALSE]],
                                   [kind |-> kind, timer |-> TRUE])]

stop(pm) == ClearTimer([pm EXCEPT !.isPlaying = FALSE, !.isPaused = FALSE])

reset(pm) ==
    [stop(pm) EXCEPT !.currentIndex = 0, !.currentWordGlobalIdx = 0,
                     !.currentSentenceWordIdx = 0]

(* tick: the timeout it sets is "sentence" after a finished sentence and   *)
(* "word" otherwise                                                        *)
tick(pm) ==
    IF ~pm.isPlaying THEN pm
    ELSE IF pm.currentIndex >= Len(pm.content) THEN stop(pm)
    ELSE IF pm.currentSentenceWordIdx >= Len(pm.content[pm.currentIndex + 1].words)
         THEN IF pm.currentIndex + 1 >= Len(pm.content)
              THEN stop([pm EXCEPT !.currentIndex = @ + 1, !.currentSentenceWordIdx = -1])
              ELSE SetTimer([pm EXCEPT !.currentIndex = @ + 1, !.currentSentenceWordIdx = -1],
                            "sentence")
         ELSE SetTimer(pm, "word")

(* openFromMerged: the overlay is there; with no sentence it returns       *)
(* before reset                                                            *)
openFromMerged(pm, mergedText) ==
    Only({ IF content = <<>> THEN [pm EXCEPT !.content = content]
           ELSE reset([pm EXCEPT !.content = content])
           : content \in {Content(mergedText)} })

(* The merged texts opened: up to MaxWords of these words, a space between *)
(* two.                                                                    *)
PracticeWords == WordChars \cup { <<"#">> }
PracticeTexts == { SpacedFrom(ws, 1) : ws \in SeqsUpTo(PracticeWords, MaxWords) }

(* The page with a merged text, the practice overlay not yet opened.       *)
InitPracticeWith(texts) ==
    /\ call = "openFromMerged"
    /\ pc = "call"
    /\ enText \in texts
    /\ frText = <<>>
    /\ parsed = <<>>
    /\ mode = "none" /\ outputPreview = <<>> /\ validation = <<>> /\ click = "none"
    /\ practiceMode \in { [NoPractice EXCEPT !.countdownOverlay = b] : b \in BOOLEAN }
    /\ slideMode = "none" /\ mixedPattern = "none"
    /\ enSlides = <<>> /\ frSlides = <<>> /\ slidesOut = <<>>
    /\ cuts = <<>> /\ plan = NoPlan /\ bestDelta = 0 /\ iter = 0
    /\ startLang = "en" /\ blockTime = 0
    /\ enParagraphs = <<>> /\ frParagraphs = <<>>
    /\ i = 0
    /\ enWordsUsed = 0 /\ frWordsUsed = 0 /\ enDur = 0 /\ frDur = 0
    /\ streakLang = "none" /\ streakDuration = 0 /\ streakCount = 0
    /\ outputParas = <<>> /\ choices = <<>> /\ walk = <<>>
    /\ targetStreakCount = 0
    /\ result = NoResult

(* what the practice overlay leaves alone: all but pc and practiceMode     *)
practiceFrame ==
    << inputs, parsed, mode, outputPreview, validation, click,
       i, enWordsUsed, frWordsUsed, enDur, frDur, slidesOut, walk,
       mergeLocals, mixedLocals, result >>

(* The practice button: openFromMerged(text), also after a close.          *)
OpenFromMerged ==
    /\ call = "openFromMerged" /\ pc \in {"call", "closed"}
    /\ practiceMode' = openFromMerged(practiceMode, enText)
    /\ pc' = IF practiceMode'.content = <<>> THEN pc ELSE "open"
    /\ UNCHANGED practiceFrame

InitOpen == InitPracticeWith(PracticeTexts)
SpecOpen == InitOpen /\ [][OpenFromMerged]_vars

(* Playback. With the countdown elements in the document runCountdown     *)
(* counts 3, 2, 1 on an interval before its promise resolves; without them *)
(* it returns a resolved promise, whose callback runs before any other     *)
(* handler. The callbacks under way are the unresolved countdowns and the  *)
(* pending timeouts; start is taken only while it leaves at most MaxChains *)
(* of them.                                                                *)
MaxChains == 2
Chains(pm) == Len(pm.timeouts) + Len(pm.countdowns)

(* the play button, or Space while not playing                             *)
Start ==
    /\ call = "openFromMerged" /\ pc = "open"
    /\ ~practiceMode.isPlaying
    /\ \E pm \in {[practiceMode EXCEPT !.isPlaying = TRUE, !.isPaused = FALSE]} :
          \E next \in {IF /\ pm.currentIndex = 0 /\ pm.currentWordGlobalIdx = 0
                           /\ pm.countdownOverlay
                        THEN [pm EXCEPT !.countdowns = Append(@, 3)]
                        ELSE tick(pm)} :
              /\ Chains(next) <= MaxChains
              /\ practiceMode' = next
    /\ UNCHANGED << pc, practiceFrame >>

(* the pause button, which calls pause whether or not it is playing, or    *)
(* Space while playing                                                     *)
Pause ==
    /\ call = "openFromMerged" /\ pc = "open"
    /\ practiceMode' = ClearTimer([practiceMode EXCEPT !.isPlaying = FALSE, !.isPaused = TRUE])
    /\ UNCHANGED << pc, practiceFrame >>

(* the reset button                                                        *)
Reset ==
    /\ call = "openFromMerged" /\ pc = "open"
    /\ practiceMode' = reset(practiceMode)
    /\ UNCHANGED << pc, practiceFrame >>

(* the close button, or Escape                                             *)
Close ==
    /\ call = "openFromMerged" /\ pc = "open"
    /\ practiceMode' = stop(practiceMode)
    /\ pc' = "closed"
    /\ UNCHANGED practiceFrame

(* One run of the interval callback of a countdown; on its last run the    *)
(* promise resolves and the callback start gave to then() runs.            *)
CountdownInterval ==
    /\ call = "openFromMerged"
    /\ \E k \in 1..Len(practiceMode.countdowns) :
          IF practiceMode.countdowns[k] > 1
          THEN practiceMode' = [practiceMode EXCEPT !.countdowns[k] = @ - 1]
          ELSE practiceMode' =
                  tick([practiceMode EXCEPT
                          !.countdowns = SubSeq(@, 1, k - 1) \o SubSeq(@, k + 1, Len(@))])
    /\ UNCHANGED << pc, practiceFrame >>

(* A pending timeout of tick runs its callback.                            *)
TimeoutFire ==
    /\ call = "openFromMerged"
    /\ \E k \in 1..Len(practiceMode.timeouts) :
          \E pm \in {[practiceMode EXCEPT
                         !.timeouts = SubSeq(@, 1, k - 1) \o SubSeq(@, k + 1, Len(@))]} :
              IF practiceMode.timeouts[k].kind = "sentence"
              THEN practiceMode' = tick([pm EXCEPT !.currentSentenceWordIdx = 0])
              ELSE practiceMode' = tick([pm EXCEPT !.currentSentenceWordIdx = @ + 1,
                                                   !.currentWordGlobalIdx = @ + 1])
    /\ UNCHANGED << pc, practiceFrame >>

PlaybackTexts == { <<"a">>, <<"a", " ", "c", ".", " ", "a", " ", "b", ",">> }
InitPractice == InitPracticeWith(PlaybackTexts)
NextPractice ==
    \/ OpenFromMerged \/ Start \/ Pause \/ Reset \/ Close
    \/ CountdownInterval \/ TimeoutFire
SpecPractice == InitPractice /\ [][NextPractice]_vars

(* ------------------------------ claims --------------------------------- *)
MergeDone == call = "merge" /\ pc = "done"
SingleDone == call = "mergePresentation" /\ slideMode = "single" /\ pc = "done"
MixedDone == call = "mergePresentation" /\ slideMode = "mixed" /\ pc = "done"

(* the segments of the returned text of merge, and of mergePresentation    *)
segs == Segments(result.text, SEP)
slideSegs == Segments(result.text, SLIDESEP)

EqualLength == Len(enParagraphs) = Len(frParagraphs)

(* C1: merge on inputs with the same number of paragraphs returns, as its  *)
(* k-th segment, the English or the French paragraph at paired index k,    *)
(* for every k, and one segment per paired index.                          *)
C1_SegmentsArePairedParagraphs ==
    (MergeDone /\ EqualLength) =>
        /\ Len(segs) = Len(enParagraphs)
        /\ \A k \in 1..Len(segs) :
              segs[k] \in {enParagraphs[k].text, frParagraphs[k].text}

(* C2: when the starting language has a paragraph at the first paired      *)
(* index, the first segment of the text merge returns is that paragraph.   *)
C2_FirstSegmentIsStartLang ==
    LET first == IF startLang = "en" THEN ParaAt(enParagraphs, 0) ELSE ParaAt(frParagraphs, 0)
    IN  (MergeDone /\ first.words > 0) => (Len(segs) >= 1 /\ segs[1] = first.text)

(* C3: enWords + frWords of merge's result is the sum of countWords over   *)
(* the segments of the returned text.                                      *)
C3_WordTotalsMatchText ==
    MergeDone =>
        result.enWords + result.frWords = Sum([k \in 1..Len(segs) |-> countWords(segs[k])])
(* C4: on n paragraphs per language that all have w words, the word       *)
(* totals merge returns differ by at most w.                               *)
Uniform(w) ==
    /\ EqualLength
    /\ \A k \in 1..Len(enParagraphs) : enParagraphs[k].words = w /\ frParagraphs[k].words = w

NonEmptySlideIndices ==
    {idx \in 0..(totalSlides - 1) :
        Len(SlideAt(enSlides, idx).paragraphs) > 0 \/ Len(SlideAt(frSlides, idx).paragraphs) > 0}

C6_OneSidedIndexEmitsThatSide ==
    MergeDone =>
        /\ \A k \in 1..Max(Len(enParagraphs), Len(frParagraphs)) :
              /\ k > Len(frParagraphs) => (Len(segs) >= k /\ segs[k] = enParagraphs[k].text)
              /\ k > Len(enParagraphs) => (Len(segs) >= k /\ segs[k] = frParagraphs[k].text)
        /\ Len(frParagraphs) = 0 =>
              /\ segs = [k \in 1..Len(enParagraphs) |-> enParagraphs[k].text]
              /\ result.frWords = 0
        /\ Len(enParagraphs) = 0 =>
              /\ segs = [k \in 1..Len(frParagraphs) |-> frParagraphs[k].text]
              /\ result.enWords = 0

C6_Witness ==
    /\ MergeDone
    /\ Len(enParagraphs) = 1 /\ Len(frParagraphs) = 3
    /\ startLang = "en" /\ targetStreakCount = 1
    /\ segs[3] = frParagraphs[3].text
(* the input slide of a language at a slide index                          *)
InputSlide(lang, idx) == IF lang = "en" THEN SlideAt(enSlides, idx) ELSE SlideAt(frSlides, idx)
BothHaveBody(idx) == SlideAt(enSlides, idx).words > 0 /\ SlideAt(frSlides, idx).words > 0

(* C7: in single mode every emitted slide is the title and the body of the *)
(* input slide of the language chosen for it.                              *)
C7_SlideFromChosenLanguage ==
    SingleDone =>
        /\ Len(slideSegs) = Len(walk)
        /\ \A k \in 1..Len(walk) :
              LET chosen == InputSlide(walk[k].lang, walk[k].index)
              IN  slideSegs[k] = SlideText(chosen.title, chosen.body)

(* C8: in single mode a slide index that is not the last one and at which  *)
(* both languages have body content is emitted in the starting language    *)
(* when even and in the other language when odd.                           *)
C8_AlternationByIndex ==
    SingleDone =>
        \A idx \in 0..(totalSlides - 2) :
            BothHaveBody(idx) =>
                \E k \in 1..Len(walk) :
                    /\ walk[k].index = idx
                    /\ idx % 2 = 0 => walk[k].lang = startLang
                    /\ idx % 2 = 1 => walk[k].lang = other(startLang)
                    /\ Len(slideSegs) >= k
                    /\ slideSegs[k] = SlideText(InputSlide(walk[k].lang, idx).title,
                                                InputSlide(walk[k].lang, idx).body)

C8_Witness ==
    /\ SingleDone
    /\ totalSlides = 3 /\ BothHaveBody(0) /\ BothHaveBody(1) /\ BothHaveBody(2)
    /\ SlideAt(enSlides, 1).body # SlideAt(frSlides, 1).body
    /\ Len(walk) = 3 /\ walk[2].lang = other(startLang)

(* the slides of the current plan of mixed mode                            *)
PlanReady == call = "mergePresentation" /\ slideMode = "mixed" /\ pc \in {"search", "done"}
OrderLangs(sl) == {sl.order[k].lang : k \in 1..Len(sl.order)}

(* C9: in mixed mode every emitted slide for which both languages have a   *)
(* paragraph holds a paragraph of each language.                           *)
C9_BothLanguagesPerSlide ==
    MixedDone =>
        \A k \in 1..Len(plan.slidesOut) :
            LET sl == plan.slidesOut[k]
            IN  (/\ Len(SlideAt(enSlides, sl.index).paragraphs) > 0
                 /\ Len(SlideAt(frSlides, sl.index).paragraphs) > 0)
                => OrderLangs(sl) = Langs

(* C10: in mixed mode, on inputs with the same slides and the same,        *)
(* non-zero paragraph count per slide: with pattern alternating the first  *)
(* slide leads with the starting language and every later slide leads with *)
(* the language the slide before it ended on, which is not the language    *)
(* that slide led with; with pattern repeating every slide leads with the  *)
(* starting language. This holds of every plan the local search adopts.    *)
SameShape ==
    /\ Len(enSlides) = Len(frSlides)
    /\ \A k \in 1..Len(enSlides) :
          /\ Len(enSlides[k].paragraphs) = Len(frSlides[k].paragraphs)
          /\ Len(enSlides[k].paragraphs) > 0

FirstLang(sl) == sl.order[1].lang
LastLang(sl) == sl.order[Len(sl.order)].lang

C10_LeadingLanguagePattern ==
    (PlanReady /\ SameShape) =>
        /\ Len(plan.slidesOut) = Len(enSlides)
        /\ \A k \in 1..Len(plan.slidesOut) : Len(plan.slidesOut[k].order) > 0
        /\ mixedPattern = "alternating" =>
              \A k \in 1..Len(plan.slidesOut) :
                  IF k = 1 THEN FirstLang(plan.slidesOut[k]) = startLang
                  ELSE /\ FirstLang(plan.slidesOut[k]) = LastLang(plan.slidesOut[k - 1])
                       /\ FirstLang(plan.slidesOut[k]) # FirstLang(plan.slidesOut[k - 1])
        /\ mixedPattern = "repeating" =>
              \A k \in 1..Len(plan.slidesOut) : FirstLang(plan.slidesOut[k]) = startLang

C10_Witness ==
    /\ MixedDone /\ SameShape /\ mixedPattern = "alternating"
    /\ Len(plan.slidesOut) = 2 /\ iter > 0
    /\ FirstLang(plan.slidesOut[2]) = other(startLang)

(* the cut arrays one iteration of the local search evaluates              *)
TestedCuts == TestCutsFrom(slidesMeta, 1, cuts)
NoImprovingMove ==
    \E tests \in {TestedCuts} :
        \A k \in 1..Len(tests) : PlanDelta(buildPlan(tests[k])) >= bestDelta

(* C11: the local search of mixed mode terminates: it never runs more than *)
(* max(1, 4 x non-empty slides) iterations, an iteration evaluates at most *)
(* two cuts per slide, an iteration the search goes on from has strictly   *)
(* lowered the duration gap, an iteration with no improving move ends the  *)
(* search, and the call returns.                                           *)
C11_SearchTerminates ==
    /\ [](pc = "search" =>
            /\ iter <= Max(1, 4 * Cardinality(NonEmptySlideIndices))
            /\ \E metas \in {slidesMeta} :
                  \A k \in 1..Len(metas) : Len(TestCutsOf(metas[k], cuts)) <= 2
            /\ Len(TestedCuts) <= 2 * Cardinality(NonEmptySlideIndices))
    /\ [][(pc = "search" /\ pc' = "search") => (iter' = iter + 1 /\ bestDelta' < bestDelta)]_vars
    /\ [][(pc = "search" /\ NoImprovingMove) => pc' = "done"]_vars
    /\ <>(pc = "done")

C11_Witness ==
    /\ MixedDone
    /\ iter >= 1 /\ iter < maxIterations
    /\ Len(TestedCuts) = 2
    /\ NoImprovingMove

(* a line of the text whose first character after leading whitespace is #  *)
HasHeadingLine(text) ==
    \E lines \in {SplitLines(text, 1, <<>>)} :
        \E k \in 1..Len(lines) :
            \E j \in 1..Len(lines[k]) :
                /\ lines[k][j] = "#"
                /\ \A m \in 1..(j - 1) : lines[k][m] \in {" ", "\r"}

(* C12: when neither text has a heading line, mergePresentation parses no  *)
(* slide from either, every step of the call can be taken, and the result  *)
(* it returns, in single and in mixed mode, is the empty text with zero    *)
(* word and duration totals.                                               *)
C12_NoHeadingsEmptyResult ==
    (call = "mergePresentation" /\ ~HasHeadingLine(enText) /\ ~HasHeadingLine(frText)) =>
        /\ pc # "parse" => (enSlides = <<>> /\ frSlides = <<>>)
        /\ pc # "done" => ENABLED NextPresentationText
        /\ pc = "done" => result = [text |-> <<>>, enWords |-> 0, frWords |-> 0,
                                    enDur |-> 0, frDur |-> 0]

C12_Witness ==
    /\ MixedDone
    /\ enText = <<"a">> /\ frText = <<"a", "\n", "\n", "a">>
    /\ result.text = <<>> /\ result.enWords = 0 /\ result.frDur = 0

(* the validation the page is to pass, by the counts of the parsed texts   *)
InputsValid ==
    /\ enText # <<>> /\ frText # <<>>
    /\ mode = "speech" => Len(parseParagraphs(enText)) = Len(parseParagraphs(frText))
    /\ mode = "presentation" =>
          \E es \in {parseSlides(enText)}, fs \in {parseSlides(frText)} :
              /\ Len(es) >= 1 /\ Len(fs) >= 1 /\ Len(es) = Len(fs)
              /\ \A k \in 1..Len(es) : Len(es[k].paragraphs) = Len(fs[k].paragraphs)

(* C13: a click on generate goes on to merge or mergePresentation exactly  *)
(* when the inputs are valid and then displays the returned text; on       *)
(* invalid inputs it shows a validation message, makes no call, and the    *)
(* displayed output never changes.                                         *)
C13_OutputOnlyAfterValidation ==
    /\ [](click = "rejected" =>
            (~InputsValid /\ validation # <<>> /\ call = "none" /\ pc = "idle"))
    /\ [](click \in {"running", "shown"} =>
            (InputsValid /\ validation = <<>> /\ call \in {"merge", "mergePresentation"}))
    /\ [](click = "shown" => outputPreview = result.text)
    /\ [][outputPreview' # outputPreview =>
            (InputsValid /\ click = "running" /\ pc = "done" /\ click' = "shown")]_vars
    /\ [][(click = "idle" /\ ~InputsValid) => (click' = "rejected" /\ outputPreview' = outputPreview)]_vars

C13_Witness ==
    /\ click = "rejected"
    /\ mode = "presentation"
    /\ validation = <<"validationParagraphs", 1, 0>>
    /\ outputPreview = <<"a">>

(* The paragraphs of a text by its lines: a line break is \r\n, \r or \n,  *)
(* a line of whitespace only is blank, and a paragraph is a longest run of *)
(* lines that are not blank, trimmed.                                      *)
RECURSIVE BreakLines(_, _, _)
BreakLines(chars, p, cur) ==
    IF p > Len(chars) THEN <<cur>>
    ELSE IF chars[p] = "\r" /\ p < Len(chars) /\ chars[p + 1] = "\n"
         THEN <<cur>> \o BreakLines(chars, p + 2, <<>>)
    ELSE IF chars[p] \in {"\r", "\n"} THEN <<cur>> \o BreakLines(chars, p + 1, <<>>)
    ELSE BreakLines(chars, p + 1, Append(cur, chars[p]))

IsBlank(line) == \A k \in 1..Len(line) : line[k] \in {" ", "\r", "\n"}

RECURSIVE GroupLines(_, _, _)
GroupLines(lines, k, cur) ==
    IF k > Len(lines) THEN (IF cur = <<>> THEN <<>> ELSE <<cur>>)
    ELSE IF IsBlank(lines[k])
         THEN (IF cur = <<>> THEN <<>> ELSE <<cur>>) \o GroupLines(lines, k + 1, <<>>)
         ELSE GroupLines(lines, k + 1, Append(cur, lines[k]))

Unpadded(chars) ==
    /\ chars # <<>>
    /\ chars[1] \notin {" ", "\r", "\n"}
    /\ chars[Len(chars)] \notin {" ", "\r", "\n"}

RECURSIVE StripLeft(_)
StripLeft(chars) ==
    IF chars # <<>> /\ chars[1] \in {" ", "\r", "\n"} THEN StripLeft(Tail(chars)) ELSE chars
RECURSIVE StripRight(_)
StripRight(chars) ==
    IF chars # <<>> /\ chars[Len(chars)] \in {" ", "\r", "\n"}
    THEN StripRight(SubSeq(chars, 1, Len(chars) - 1)) ELSE chars

ParagraphsByLines(text) ==
    LET groups == GroupLines(BreakLines(text, 1, <<>>), 1, <<>>)
    IN  [k \in 1..Len(groups) |-> StripRight(StripLeft(JoinLines(groups[k], 1)))]

(* parts.join(sep) on raw texts                                            *)
RECURSIVE JoinChars(_, _, _)
JoinChars(parts, k, sep) ==
    IF k > Len(parts) THEN <<>>
    ELSE IF k = Len(parts) THEN parts[k]
    ELSE parts[k] \o sep \o JoinChars(parts, k + 1, sep)

FunctionReturned(name) == call = name /\ pc = "returned"

(* C14: parseParagraphs returns the paragraphs of the text in order, one   *)
(* per run of non-blank lines, each non-empty and trimmed, and parsing its *)
(* result joined by blank lines returns the same paragraphs.               *)
C14_ParseParagraphsIdempotent ==
    FunctionReturned("parseParagraphs") =>
        /\ \A k \in 1..Len(parsed) : Unpadded(parsed[k])
        /\ parsed = ParagraphsByLines(enText)
        /\ parseParagraphs(JoinChars(parsed, 1, <<"\n", "\n">>)) = parsed

C14_Witness ==
    /\ FunctionReturned("parseParagraphs")
    /\ enText = <<"a", "\r", " ", "\n", "a">>
    /\ parsed = << <<"a">>, <<"a">> >>

(* a heading line (a line ends at \n or \r\n), and the number of words of  *)
(* a raw text                                                              *)
HeadingLine(line) ==
    \E j \in 1..Len(line) : line[j] = "#" /\ \A m \in 1..(j - 1) : line[m] \in {" ", "\r"}
WordStarts(chars) ==
    Cardinality({k \in 1..Len(chars) :
                    /\ chars[k] \notin {" ", "\r", "\n"}
                    /\ k = 1 \/ chars[k - 1] \in {" ", "\r", "\n"}})

(* C15: parseSlides returns one slide per heading line, in order; its      *)
(* title is that line trimmed, its paragraphs are parseParagraphs of the   *)
(* lines up to the next heading line, and its words are the words of those *)
(* paragraphs, the title not counted.                                      *)
C15_OneSlidePerHeading ==
    FunctionReturned("parseSlides") =>
        \E lines \in {SplitLines(enText, 1, <<>>)} :
            \E heads \in {SelectSeq([k \in 1..Len(lines) |-> k],
                                    LAMBDA k : HeadingLine(lines[k]))} :
                /\ Len(parsed) = Len(heads)
                /\ \A j \in 1..Len(heads) :
                      LET last == IF j < Len(heads) THEN heads[j + 1] - 1 ELSE Len(lines)
                          between == SubSeq(lines, heads[j] + 1, last)
                          paras == parseParagraphs(JoinChars(between, 1, <<"\n">>))
                      IN  /\ parsed[j].title = StripRight(StripLeft(lines[heads[j]]))
                          /\ parsed[j].paragraphs = paras
                          /\ parsed[j].words = Sum([k \in 1..Len(paras) |-> WordStarts(paras[k])])

C15_Witness ==
    /\ FunctionReturned("parseSlides")
    /\ enText = <<" ", "#", "\n", "a", " ", "a">>
    /\ Len(parsed) = 1 /\ parsed[1].title = <<"#">> /\ parsed[1].words = 2

(* C16: for a text with a word ending in , ; : or a sentence ending in     *)
(* . ! ?, estimateDuration of the text is at least estimateDuration of its *)
(* word count.                                                             *)
C16_PunctuationNeverShortens ==
    (/\ FunctionReturned("estimateDuration")
     /\ \E k \in 1..Len(enText) : enText[k] \in {",", ";", ":", ".", "!", "?"})
    => parsed.ofText >= parsed.ofCount

(* the paragraph of a language at the paired index of the k-th emitted     *)
(* paragraph (every paired index has a paragraph in one language)          *)
PairedText(lang, k) ==
    IF lang = "en" THEN ParaAt(enParagraphs, k - 1).text ELSE ParaAt(frParagraphs, k - 1).text

(* C17: the balance pass of merge leaves every segment the walk emitted    *)
(* but the last as it is; it either leaves the last one and the totals as  *)
(* they are too, or replaces the last one by the other language's          *)
(* paragraph at the same paired index, and this only when the word gap     *)
(* gets strictly smaller.                                                  *)
C17_BalanceTouchesOnlyLast ==
    [][(call = "merge" /\ pc = "walk" /\ pc' = "done") =>
         LET n == Len(outputParas)
         IN  /\ Len(outputParas') = n
             /\ result'.text = Join(outputParas', SEP)
             /\ \A k \in 1..(n - 1) : outputParas'[k] = outputParas[k]
             /\ n > 0 =>
                  \/ /\ outputParas'[n] = outputParas[n]
                     /\ result'.enWords = enWordsUsed /\ result'.frWords = frWordsUsed
                     /\ result'.enDur = enDur /\ result'.frDur = frDur
                  \/ /\ outputParas[n] = PairedText(walk[n].lang, n)
                     /\ outputParas'[n] = PairedText(other(walk[n].lang), n)
                     /\ Abs(result'.enWords - result'.frWords) < Abs(enWordsUsed - frWordsUsed)]_vars

(* the paragraphs of a language, as the walk reads them                    *)
ParagraphsOf(lang) == IF lang = "en" THEN enParagraphs ELSE frParagraphs

(* the walk emitted the same language run + 1 times in a row from k on     *)
SameLanguageRun(k, run) ==
    /\ k + run <= Len(walk)
    /\ \A j \in k..(k + run) : walk[j].lang = walk[k].lang

(* C18: in the walk of merge, a step taken when the streak has reached     *)
(* targetStreakCount and the language that is not streaking has a          *)
(* paragraph at the index chooses that language; so on inputs with the     *)
(* same number of paragraphs the walk never emits more than                *)
(* targetStreakCount paragraphs of one language in a row, the forced       *)
(* first paragraph counting as a streak of one.                            *)
C18_StreakForcesSwitch ==
    /\ [][(call = "merge" /\ pc = "walk" /\ i' = i + 1
           /\ streakLang # "none" /\ streakCount >= targetStreakCount
           /\ ParaAt(ParagraphsOf(other(streakLang)), i).words > 0)
          => /\ Len(walk') = Len(walk) + 1
             /\ walk'[Len(walk')].lang = other(streakLang)
             /\ outputParas'[Len(outputParas')] = ParaAt(ParagraphsOf(other(streakLang)), i).text
             /\ streakCount' = 1]_vars
    /\ []((call = "merge" /\ EqualLength)
          => /\ streakCount <= targetStreakCount
             /\ \A k \in 1..Len(walk) : ~SameLanguageRun(k, targetStreakCount))

(* a finished walk over three pairs that kept English for two paragraphs   *)
(* and then had to switch to French                                        *)
C18_Witness ==
    /\ MergeDone /\ EqualLength /\ Len(walk) = 3
    /\ targetStreakCount = 2
    /\ walk[1].lang = "en" /\ walk[2].lang = "en" /\ walk[3].lang = "fr"

(* the languages whose input slide at a slide index has body content       *)
WithBody(idx) == { lang \in Langs : InputSlide(lang, idx).words > 0 }

(* an emitted slide text that is some title of the index over the body     *)
HasBody(seg, idx, body) ==
    \E title \in { InputSlide("en", idx).title, InputSlide("fr", idx).title, fallbackTitle(idx) } :
        seg = SlideText(title, body)

(* the words of the input slides the emitted slides of a language stand for *)
SingleWords(lang) ==
    Sum([k \in 1..Len(walk) |->
           IF walk[k].lang = lang THEN InputSlide(lang, walk[k].index).words ELSE 0])

(* C19: in single mode every slide index, the last one included, at which  *)
(* exactly one language has body content is emitted with the body of that  *)
(* language and counted in that language's words; no slide that has        *)
(* content is emitted with an empty body.                                  *)
C19_OnlyLanguageWithBody ==
    SingleDone =>
        /\ Len(slideSegs) = Len(walk)
        /\ result.enWords = SingleWords("en") /\ result.frWords = SingleWords("fr")
        /\ \A idx \in 0..(totalSlides - 1) :
              WithBody(idx) # {} => \E k \in 1..Len(walk) : walk[k].index = idx
        /\ \A k \in 1..Len(walk) :
              LET idx == walk[k].index
              IN  /\ \A lang \in Langs :
                        WithBody(idx) = {lang} =>
                            /\ walk[k].lang = lang
                            /\ HasBody(slideSegs[k], idx, InputSlide(lang, idx).body)
                  /\ WithBody(idx) # {} => ~HasBody(slideSegs[k], idx, EmptyText)

(* the estimated durations, and the words, of the paragraphs at the paired *)
(* indices where langAt names the language lang                            *)
DurationOf(lang, langAt) ==
    Sum([k \in 1..Len(langAt) |->
           IF langAt[k] = lang THEN estimateDuration(PairedText(lang, k)) ELSE 0])
WordsOf(lang, langAt) ==
    Sum([k \in 1..Len(langAt) |->
           IF langAt[k] = lang THEN countWords(PairedText(lang, k)) ELSE 0])

(* C20: the enDur and frDur merge returns are the sums of estimateDuration *)
(* over the paragraphs its enWords and frWords count, during the walk and  *)
(* also when the balance pass has swapped the last choice.                 *)
C20_DurationsMatchWords ==
    /\ []((call = "merge" /\ pc = "walk") =>
            \E langAt \in {[k \in 1..Len(walk) |-> walk[k].lang]} :
                /\ enWordsUsed = WordsOf("en", langAt) /\ frWordsUsed = WordsOf("fr", langAt)
                /\ enDur = DurationOf("en", langAt) /\ frDur = DurationOf("fr", langAt))
    /\ [][(call = "merge" /\ pc = "walk" /\ pc' = "done") =>
            \E langAt \in {[k \in 1..Len(walk) |->
                              IF k = Len(walk) /\ enWordsUsed' # enWordsUsed
                              THEN other(walk[k].lang) ELSE walk[k].lang]} :
                /\ result'.enWords = WordsOf("en", langAt)
                /\ result'.frWords = WordsOf("fr", langAt)
                /\ result'.enDur = DurationOf("en", langAt)
                /\ result'.frDur = DurationOf("fr", langAt)]_vars

(* the words single mode has counted for a language before it reaches the  *)
(* k-th emitted slide                                                      *)
WordsBefore(lang, k) ==
    Sum([j \in 1..(k - 1) |->
           IF walk[j].lang = lang THEN InputSlide(lang, walk[j].index).words ELSE 0])

(* |enWords - frWords| when the k-th emitted slide goes to lang            *)
GapWith(lang, k) ==
    LET words == InputSlide(lang, walk[k].index).words
    IN  Abs((WordsBefore("en", k) + (IF lang = "en" THEN words ELSE 0))
            - (WordsBefore("fr", k) + (IF lang = "fr" THEN words ELSE 0)))

(* C21: in single mode, when both languages have content on the slide at   *)
(* the last index, that slide goes to the alternate language exactly when  *)
(* this makes the cumulative word gap strictly smaller than keeping the    *)
(* alternation language, so the final gap is the smaller of the two; no    *)
(* other slide on which both have content leaves its alternation language. *)
C21_FinalSlideSwapMinimisesGap ==
    SingleDone =>
        /\ \A k \in 1..Len(walk) :
              (BothHaveBody(walk[k].index) /\ walk[k].index # totalSlides - 1)
                  => walk[k].lang = SingleStartLang(walk[k].index)
        /\ (totalSlides > 0 /\ BothHaveBody(totalSlides - 1)) =>
              \E k \in {Len(walk)} : \E keep \in {SingleStartLang(totalSlides - 1)} :
                  /\ k > 0 /\ walk[k].index = totalSlides - 1
                  /\ walk[k].lang = other(keep) <=> GapWith(other(keep), k) < GapWith(keep, k)
                  /\ Abs(result.enWords - result.frWords)
                       = Min(GapWith(keep, k), GapWith(other(keep), k))

(* a last slide with content in both languages that was moved to the       *)
(* alternate language, after an earlier slide was emitted                  *)
C21_Witness ==
    /\ SingleDone /\ totalSlides >= 2 /\ BothHaveBody(totalSlides - 1)
    /\ Len(walk) >= 2
    /\ walk[Len(walk)].index = totalSlides - 1
    /\ walk[Len(walk)].lang = other(SingleStartLang(totalSlides - 1))
    /\ Abs(result.enWords - result.frWords) < GapWith(SingleStartLang(totalSlides - 1), Len(walk))

(* the duration gap of the plan built from the default cuts                *)
InitialDelta == PlanDelta(buildPlan(DefaultCuts))

(* C22: the duration gap |enDur - frDur| mixed mode returns is never       *)
(* larger than the gap of the plan built from the default cuts, and every  *)
(* move the local search adopts lowers the best gap by more than 1e-6 s    *)
(* (0.001 ms).                                                             *)
C22_GapNeverGrows ==
    /\ []((call = "mergePresentation" /\ pc = "search") =>
            /\ bestDelta = PlanDelta(plan)
            /\ bestDelta <= InitialDelta)
    /\ [](MixedDone =>
            /\ Abs(result.enDur - result.frDur) = bestDelta
            /\ Abs(result.enDur - result.frDur) <= InitialDelta)
    /\ [][(pc = "search" /\ (cuts' # cuts \/ plan' # plan \/ bestDelta' # bestDelta)) =>
            /\ plan' = buildPlan(cuts')
            /\ 1000 * Millis(bestDelta') + 1 < 1000 * Millis(bestDelta)]_vars

(* a returned plan whose gap is below that of the default cuts             *)
C22_Witness ==
    /\ MixedDone /\ iter >= 1
    /\ cuts # DefaultCuts
    /\ Abs(result.enDur - result.frDur) < InitialDelta

(* the slides whose cut differs between two cut arrays                     *)
CutsChanged(before, after) == { k \in 1..Len(before) : after[k] # before[k] }

(* ceil(n / 2)                                                             *)
HalfUp(n) == (n + 1) \div 2

(* the cut of a slide with n paragraph positions is in its range           *)
CutInRange(cut, n) == IF n >= 2 THEN cut >= 1 /\ cut <= n - 1 ELSE cut = 1

(* C23: all through the local search of mixed mode and in the returned     *)
(* plan the cut of a slide with n >= 2 paragraph positions lies in         *)
(* [1, n - 1] and the cut of a slide with one position is 1; the first cut *)
(* of a slide is ceil(n / 2), and an adopted move changes the cut of       *)
(* exactly one slide by exactly 1.                                         *)
C23_CutsStayInRange ==
    /\ []((call = "mergePresentation" /\ pc \in {"search", "done"} /\ slideMode = "mixed") =>
            \E metas \in {slidesMeta} :
                /\ Len(plan.slidesOut) = Len(metas)
                /\ \A k \in 1..Len(metas) :
                      /\ CutInRange(cuts[metas[k].index + 1], metas[k].totalParas)
                      /\ plan.slidesOut[k].cut = cuts[metas[k].index + 1]
                      /\ iter = 0 => cuts[metas[k].index + 1] = HalfUp(metas[k].totalParas))
    /\ [][(pc = "mixed" /\ pc' = "search") =>
            \A k \in 1..totalSlides :
                Meta(k - 1).totalParas > 0 => cuts'[k] = HalfUp(Meta(k - 1).totalParas)]_vars
    /\ [][(pc = "search" /\ cuts' # cuts) =>
            \E k \in 1..Len(cuts) :
                /\ CutsChanged(cuts, cuts') = {k}
                /\ Abs(cuts'[k] - cuts[k]) = 1]_vars

(* a returned plan after one move up and one move down of a cut            *)
C23_Witness ==
    /\ MixedDone /\ iter >= 2
    /\ \E k \in 1..Len(cuts) : cuts[k] > DefaultCuts[k]
    /\ \E k \in 1..Len(cuts) : cuts[k] # 0 /\ cuts[k] < DefaultCuts[k]

(* the cut arrays one step away from the current one: the cut of one slide *)
(* with more than one position moved by 1 or -1, inside [1, n - 1]         *)
NeighbourCuts ==
    { [cuts EXCEPT ![q[1]] = cuts[q[1]] + q[2]] :
        q \in { r \in (1..Len(cuts)) \X {-1, 1} :
                  /\ Meta(r[1] - 1).totalParas > 1
                  /\ cuts[r[1]] + r[2] >= 1
                  /\ cuts[r[1]] + r[2] <= Meta(r[1] - 1).totalParas - 1 } }

(* C24: when the local search of mixed mode stops with iterations left,    *)
(* the returned plan is a local optimum: moving the cut of any slide with  *)
(* more than one paragraph position by one, inside its range, and building *)
(* the whole plan again gives a duration gap that is not below the         *)
(* returned gap by more than 1e-6 s (0.001 ms).                            *)
C24_StopsAtLocalOptimum ==
    (MixedDone /\ iter < maxIterations) =>
        \E gap \in {Abs(result.enDur - result.frDur)} :
            \A testCuts \in NeighbourCuts :
                1000 * Millis(PlanDelta(buildPlan(testCuts))) + 1 >= 1000 * Millis(gap)

(* a search that moved a cut, stopped with iterations left, and has a      *)
(* neighbour on each side of some cut, one of them strictly worse          *)
C24_Witness ==
    /\ MixedDone /\ iter >= 1 /\ iter < maxIterations
    /\ \E k \in 1..Len(cuts) :
          /\ [cuts EXCEPT ![k] = cuts[k] - 1] \in NeighbourCuts
          /\ [cuts EXCEPT ![k] = cuts[k] + 1] \in NeighbourCuts
    /\ \E testCuts \in NeighbourCuts :
          PlanDelta(buildPlan(testCuts)) > Abs(result.enDur - result.frDur)

(* both languages have a paragraph at every position of the slide at idx,  *)
(* and there are at least two positions                                    *)
FullOnBothSides(idx) ==
    /\ Len(SlideAt(enSlides, idx).paragraphs) = Len(SlideAt(frSlides, idx).paragraphs)
    /\ Len(SlideAt(enSlides, idx).paragraphs) >= 2

(* C25: in a mixed-mode plan, a slide in which both languages have a       *)
(* paragraph at every one of its two or more positions shows position idx  *)
(* in the language the slide leads with when idx < cut and in the other    *)
(* language when idx >= cut; every position is there once, in position     *)
(* order, and no paragraph is appended.                                    *)
C25_CutSplitsSlide ==
    PlanReady =>
        \A k \in 1..Len(plan.slidesOut) :
            \E sl \in {plan.slidesOut[k]} :
                FullOnBothSides(sl.index) =>
                    /\ Len(sl.order) = Len(SlideAt(enSlides, sl.index).paragraphs)
                    /\ \A j \in 1..Len(sl.order) :
                          \E lang \in {IF j - 1 < sl.cut THEN sl.lead ELSE other(sl.lead)} :
                              /\ sl.order[j].pos = j - 1
                              /\ sl.order[j].lang = lang
                              /\ sl.order[j].text = InputSlide(lang, sl.index).paragraphs[j]
                    /\ sl.text = Join(<<sl.title>> \o [j \in 1..Len(sl.order) |-> sl.order[j].text],
                                      PB)

(* a returned plan with a five-paragraph slide, full on both sides, whose  *)
(* cut the search has moved                                                *)
C25_Witness ==
    /\ MixedDone /\ iter >= 1
    /\ \E k \in 1..Len(plan.slidesOut) :
          /\ FullOnBothSides(plan.slidesOut[k].index)
          /\ Len(plan.slidesOut[k].order) = 5
          /\ plan.slidesOut[k].cut # 3
          /\ plan.slidesOut[k].lead = "fr"

(* the paragraph of a language's input slide at a position, empty when it  *)
(* has none there                                                          *)
InputPara(lang, idx, pos) == ParaAt(toParas(InputSlide(lang, idx).paragraphs), pos)

(* the words of the paragraphs of the plan's slides that come from the     *)
(* input of lang, counted from their texts                                 *)
WordsTakenFrom(lang) ==
    Sum([k \in 1..Len(plan.slidesOut) |->
           Sum([j \in 1..Len(plan.slidesOut[k].order) |->
                  IF plan.slidesOut[k].order[j].lang = lang
                  THEN countWords(plan.slidesOut[k].order[j].text) ELSE 0])])

(* the language planned by the cut for an entry of a slide's order         *)
PlannedLang(sl, j) == IF sl.order[j].pos < sl.cut THEN sl.lead ELSE other(sl.lead)

(* C26: the enWords and frWords mixed mode returns are the sums of the     *)
(* word counts of the paragraphs put in the output that come from the      *)
(* English and from the French input: a paragraph used through the content *)
(* fallback counts for the language it comes from, and the paragraph the   *)
(* monolingual-slide correction appends is counted too.                    *)
C26_WordsFollowActualLanguage ==
    MixedDone =>
        /\ result.text = Join([k \in 1..Len(plan.slidesOut) |-> plan.slidesOut[k].text], SLIDESEP)
        /\ \A k \in 1..Len(plan.slidesOut) :
              \E sl \in {plan.slidesOut[k]} :
                  /\ sl.text = Join(<<sl.title>> \o [j \in 1..Len(sl.order) |-> sl.order[j].text], PB)
                  /\ \A j \in 1..Len(sl.order) :
                        /\ sl.order[j].text # EmptyText
                        /\ sl.order[j].text = InputPara(sl.order[j].lang, sl.index, sl.order[j].pos).text
        /\ result.enWords = WordsTakenFrom("en")
        /\ result.frWords = WordsTakenFrom("fr")

(* a returned plan with a paragraph used through the fallback and a slide  *)
(* with an appended paragraph                                              *)
C26_Witness ==
    /\ MixedDone
    /\ \E k \in 1..Len(plan.slidesOut) : \E j \in 1..Len(plan.slidesOut[k].order) :
          /\ j <= Meta(plan.slidesOut[k].index).totalParas
          /\ plan.slidesOut[k].order[j].lang # PlannedLang(plan.slidesOut[k], j)
    /\ \E k \in 1..Len(plan.slidesOut) :
          Len(plan.slidesOut[k].order) > Meta(plan.slidesOut[k].index).totalParas
    /\ result.enWords > 0 /\ result.frWords > 0

(* C27: whatever options.blockTime is (0, negative, not a number) and      *)
(* whatever the inputs are (empty, or with paragraphs whose estimated      *)
(* duration is 0), the targetStreakCount of merge is an integer between 1  *)
(* and max(2, floor(totalPairs / 2)).                                      *)
C27_TargetStreakInRange ==
    (call = "merge" /\ pc # "start") =>
        /\ targetStreakCount \in Int
        /\ 1 <= targetStreakCount
        /\ targetStreakCount <= Max(2, totalPairs \div 2)

(* a negative block time on six pairs, and a call whose paragraphs all     *)
(* have an estimated duration of 0                                         *)
C27_Witness ==
    /\ call = "merge" /\ pc = "done" /\ totalPairs = 6
    /\ enDur = 0 /\ frDur = 0
    /\ \/ blockTime = <<"-", "9", "0">> /\ targetStreakCount = 1
       \/ blockTime = <<"a">> /\ targetStreakCount = 3

(* the scores of the two languages at the index the walk is at are equal   *)
ScoresTie ==
    \E enScore \in {Score("en", ParaAt(enParagraphs, i), enWordsUsed, frWordsUsed)} :
        \E frScore \in {Score("fr", ParaAt(frParagraphs, i), frWordsUsed, enWordsUsed)} :
            ~ScoreLess(enScore, frScore) /\ ~ScoreLess(frScore, enScore)

(* C28: when the scoring step of merge finds the two scores equal, it      *)
(* chooses the language with fewer words so far when that language has a   *)
(* paragraph at the index, and the starting language when the word counts  *)
(* are equal; the paragraph chosen on a tie is never empty.                *)
C28_TieGoesToTrailingLanguage ==
    [][(call = "merge" /\ pc = "walk" /\ i' = i + 1 /\ i < totalPairs
        /\ ~ForcedFirst(ParaAt(enParagraphs, i), ParaAt(frParagraphs, i)) /\ ScoresTie)
       => \E chosen \in {walk'[Len(walk')].lang} :
             /\ Len(walk') = Len(walk) + 1
             /\ (enWordsUsed < frWordsUsed /\ ParaAt(enParagraphs, i).text # EmptyText)
                   => chosen = "en"
             /\ (frWordsUsed < enWordsUsed /\ ParaAt(frParagraphs, i).text # EmptyText)
                   => chosen = "fr"
             /\ enWordsUsed = frWordsUsed => chosen = startLang
             /\ ParaAt(ParagraphsOf(chosen), i).text # EmptyText
             /\ outputParas'[Len(outputParas')] = ParaAt(ParagraphsOf(chosen), i).text]_vars

(* English starts with one word; at the second index staying with English  *)
(* scores |2 - 0| = 2 and French scores |1 - 1| + 2 = 2: the tie goes to   *)
(* French, which is behind                                                 *)
C28_Witness ==
    /\ MergeDone /\ startLang = "en" /\ targetStreakCount = 2
    /\ Len(enParagraphs) >= 2 /\ Len(frParagraphs) >= 2
    /\ enParagraphs[1].words = 1 /\ enParagraphs[2].words = 1 /\ frParagraphs[2].words = 1
    /\ Len(walk) >= 2 /\ walk[1].lang = "en" /\ walk[2].lang = "fr"

(* C29: with the rate at 150 WPM, calculateTotalDuration after             *)
(* openFromMerged(text) is 1000 x estimateDuration(text): both count one   *)
(* unit per word, one more per word ending in , ; or :, two more per #     *)
(* and two more per sentence ending in . ! or ?.                           *)
C29_TeleprompterMatchesEstimate ==
    /\ (call = "openFromMerged" /\ pc = "open") =>
          calculateTotalDuration(practiceMode.content) = Millis(estimateDuration(Tokens(enText)))
    /\ (call = "openFromMerged" /\ Content(enText) = <<>>) =>
          /\ calculateTotalDuration(Content(enText)) = 0
          /\ Millis(estimateDuration(Tokens(enText))) = 0

(* an opened text of two sentences with a heading and a clause pause      *)
C29_Witness ==
    /\ call = "openFromMerged" /\ pc = "open"
    /\ enText = <<"c", ".", " ", "#", " ", "b", ",">>
    /\ Len(practiceMode.content) = 2
    /\ calculateTotalDuration(practiceMode.content) = 8 * 400

(* the playback chains that are under way: the pending timeouts of tick,   *)
(* and while playing also the countdowns that have not resolved            *)
PlaybackChains ==
    Len(practiceMode.timeouts)
    + (IF practiceMode.isPlaying THEN Len(practiceMode.countdowns) ELSE 0)

(* C30: however start, pause, reset and close interleave with the          *)
(* countdown and timeout callbacks, at most one playback chain is under    *)
(* way: never more than one pending timeout of tick, and while playing     *)
(* never more than one pending timeout or unresolved countdown.            *)
C30_SinglePlaybackChain ==
    call = "openFromMerged" => (Len(practiceMode.timeouts) <= 1 /\ PlaybackChains <= 1)

====
